---- MODULE Spec2Model ----
(***************************************************************************)
(* A model of honeybee's grid-based daylight results: the per-sensor value *)
(* store of AnalysisPoint (values keyed by source, state and hour of the   *)
(* year), the combination of the sources' values under a blind state, the  *)
(* blind-state ladder and its greedy per-hour control, and the annual      *)
(* metrics computed from the combined values.                              *)
(*                                                                         *)
(* Python's ids are 0-based and are kept so in every operation's inputs    *)
(* and outputs; a TLA+ sequence that models a Python list is indexed with  *)
(* id + 1.  Percentages are true divisions in the source (from __future__  *)
(* import division); they are kept as exact fractions <<num, den>>.        *)
(***************************************************************************)
EXTENDS Integers, Sequences, FiniteSets, TLC

VARIABLES
    sources,        \* grid.sources: per source, the number of its states
    hoys,           \* grid.hoys: the hours of the year of the results
    values,         \* AnalysisPoint._values[sid][stateid][hoy]
    isDirectLoaded, \* AnalysisPoint._is_directLoaded
    written,        \* history: the last successful write per (key, hour)
    nops,           \* number of write operations performed so far
    inp,            \* the arguments of the metric / blinds call under study
    res,            \* the last operation and its outcome
    points,         \* grid.analysis_points: per sensor, its store and flag
    totalFiles,     \* grid._totalFiles: descriptors of the total files
    directFiles,    \* grid._directFiles: descriptors of the direct files
    disk,           \* the result files: per path, the lines of the file
    grids           \* the grids renumbered and added: ids, hours, sources

vars == <<sources, hoys, values, isDirectLoaded, written, nops, inp, res,
          points, totalFiles, directFiles, disk, grids>>

\* the variables of a grid with result files
gridVars == <<points, totalFiles, directFiles, disk, grids>>

\* a sensor studied on its own: no grid-level state
NoGrid ==
    /\ points = <<>>
    /\ totalFiles = <<>>
    /\ directFiles = <<>>
    /\ disk = <<>>
    /\ grids = <<>>

----------------------------------------------------------------------------
(* Bounds and input domains *)

MaxOps == 2
MaxSources == 3
MaxStates == 4
MaxHours == 3

\* the hours the store specification writes and reads
StoreHoys == {0, 1}
\* the values the coupled writes store
StoreVals == {1, 2}
\* the values the single-channel writes store
SingleVals == {4}

----------------------------------------------------------------------------
(* Python values *)

\* Python's None where a number is expected (illuminance values are >= 0)
None == -1

IsNum(x) == x # None

\* an outcome: a returned (total, direct) pair, or a raised exception
Ok(t, d) == [status |-> "ok", total |-> t, direct |-> d, hoy |-> None]
Raise(exc, h) == [status |-> exc, total |-> None, direct |-> None, hoy |-> h]

\* no call is in progress
Idle == [op |-> "none"]

\* history of the writes to one (key, hour)
NeverWritten == [by |-> "none", t |-> None, d |-> None]

----------------------------------------------------------------------------
(* The value store *)

\* no entry for an hour: `hoy not in self._values[sid][stateid]`
Absent == [kind |-> "absent", tot |-> None, dir |-> None]
\* the two-slot list a single-channel write fills in
ListEntry(t, d) == [kind |-> "list", tot |-> t, dir |-> d]
\* the (total, direct) tuple a coupled write stores
TupleEntry(t, d) == [kind |-> "tuple", tot |-> t, dir |-> d]

\* place holders for every source and state of the grid, no hour known
EmptyStore(srcs, hs) ==
    [s \in 1..Len(srcs) |-> [st \in 1..srcs[s] |-> [h \in hs |-> Absent]]]

\* the ids of a source and a state, whose place holders exist
CreateDataStructure(sid, stateid) == <<sid, stateid>>

HasKey(vals, sid, stateid) ==
    /\ sid + 1 \in 1..Len(vals)
    /\ stateid + 1 \in 1..Len(vals[sid + 1])

HasEntry(vals, sid, stateid, hoy) ==
    /\ HasKey(vals, sid, stateid)
    /\ hoy \in DOMAIN vals[sid + 1][stateid + 1]
    /\ vals[sid + 1][stateid + 1][hoy].kind # "absent"

EntryOf(vals, sid, stateid, hoy) ==
    IF hoy \in DOMAIN vals[sid + 1][stateid + 1]
    THEN vals[sid + 1][stateid + 1][hoy]
    ELSE Absent

Put(vals, sid, stateid, hoy, e) ==
    [vals EXCEPT ![sid + 1][stateid + 1][hoy] = e]

\* self._values[sid][stateid][hoy][ind] = value: a missing hour gets the
\* list [None, None] first; a tuple does not support item assignment
SetItem(e, ind, value) ==
    IF e.kind = "tuple" THEN e
    ELSE IF ind = 0 THEN ListEntry(value, e.dir)
    ELSE ListEntry(e.tot, value)

Keys == {k \in (0..(MaxSources - 1)) \X (0..(MaxStates - 1)) :
            /\ k[1] < Len(sources)
            /\ k[2] < sources[k[1] + 1]}

----------------------------------------------------------------------------
(* Writes *)

\* set_value(value, hoy, source, state, is_direct)
SetValue(value, hoy, sid, stateid, is_direct) ==
    /\ res = Idle
    /\ nops < MaxOps
    /\ nops' = nops + 1
    /\ IF hoy = None
       THEN /\ res' = Idle
            /\ UNCHANGED <<values, isDirectLoaded, written>>
       ELSE LET id == CreateDataStructure(sid, stateid)
                e == EntryOf(values, id[1], id[2], hoy)
                ind == IF is_direct THEN 1 ELSE 0
            IN  /\ isDirectLoaded' = (isDirectLoaded \/ is_direct)
                /\ IF e.kind = "tuple"
                   THEN /\ res' = [op |-> "set_value",
                                   out |-> Raise("TypeError", hoy)]
                        /\ UNCHANGED <<values, written>>
                   ELSE /\ res' = Idle
                        /\ values' = Put(values, id[1], id[2], hoy,
                                         SetItem(e, ind, value))
                        /\ written' = [written EXCEPT
                               ![<<(<<sid, stateid>>), hoy>>] =
                                   [by |-> "set_value", t |-> None, d |-> None]]
    /\ UNCHANGED <<gridVars, sources, hoys, inp>>

\* mutant of CoupledEntry: the pair stored in the wrong order
CoupledEntrySwapped(t, d) == TupleEntry(d, t)

\* what set_coupled_value stores for value = (t, d)
CoupledEntry(t, d) == TupleEntry(t, d)

\* set_coupled_value(value, hoy, source, state)
SetCoupledValue(t, d, hoy, sid, stateid) ==
    /\ res = Idle
    /\ nops < MaxOps
    /\ nops' = nops + 1
    /\ res' = Idle
    /\ LET id == CreateDataStructure(sid, stateid)
       IN  IF hoy = None
           THEN UNCHANGED <<values, isDirectLoaded, written>>
           ELSE /\ values' = Put(values, id[1], id[2], hoy, CoupledEntry(t, d))
                /\ isDirectLoaded' = TRUE
                /\ written' = [written EXCEPT
                       ![<<(<<sid, stateid>>), hoy>>] =
                           [by |-> "set_coupled_value", t |-> t, d |-> d]]
    /\ UNCHANGED <<gridVars, sources, hoys, inp>>

----------------------------------------------------------------------------
(* Reads *)

\* mutant of CoupledValueById: the hour is not looked up before it is read
CoupledValueByIdUnchecked(vals, hoy, source_id, state_id) ==
    LET sid == IF source_id = None THEN 0 ELSE source_id
        stateid == IF state_id = None THEN 0 ELSE state_id
    IN  IF ~HasKey(vals, sid, stateid) THEN Raise("IndexError", hoy)
        ELSE LET e == EntryOf(vals, sid, stateid, hoy)
             IN  Ok(e.tot, e.dir)

\* coupled_value_by_id(hoy, source_id, state_id)
CoupledValueById(vals, hoy, source_id, state_id) ==
    LET sid == IF source_id = None THEN 0 ELSE source_id
        stateid == IF state_id = None THEN 0 ELSE state_id
    IN  IF ~HasKey(vals, sid, stateid) THEN Raise("IndexError", hoy)
        ELSE IF ~HasEntry(vals, sid, stateid, hoy) THEN Raise("ValueError", hoy)
        ELSE LET e == EntryOf(vals, sid, stateid, hoy)
             IN  Ok(e.tot, e.dir)

\* total += t; direct += d, inside try ... except TypeError: pass
AddPair(acc, t, d) ==
    IF ~IsNum(t) THEN acc
    ELSE IF ~IsNum(acc.direct) \/ ~IsNum(d)
         THEN [acc EXCEPT !.total = acc.total + t]
         ELSE [acc EXCEPT !.total = acc.total + t, !.direct = acc.direct + d]

\* mutant of CombineFrom: -1 is not a sentinel but Python's last index
RECURSIVE CombineFromLastIndex(_, _, _, _, _)
CombineFromLastIndex(vals, hoy, ids, sid, acc) ==
    IF sid >= Len(ids) THEN acc
    ELSE LET stateid == IF ids[sid + 1] = -1 /\ sid + 1 \in 1..Len(vals)
                        THEN Len(vals[sid + 1]) - 1
                        ELSE ids[sid + 1]
         IN  IF ~HasKey(vals, sid, stateid)
             THEN Raise("IndexError", hoy)
             ELSE IF ~HasEntry(vals, sid, stateid, hoy)
             THEN Raise("ValueError", hoy)
             ELSE LET e == EntryOf(vals, sid, stateid, hoy)
                  IN  CombineFromLastIndex(vals, hoy, ids, sid + 1,
                                           AddPair(acc, e.tot, e.dir))

\* the loop over enumerate(blinds_state_ids) of combined_value_by_id and of
\* combined_values_by_id, from source index sid on
RECURSIVE CombineFrom(_, _, _, _, _)
CombineFrom(vals, hoy, ids, sid, acc) ==
    IF sid >= Len(ids) THEN acc
    ELSE LET stateid == ids[sid + 1]
         IN  IF stateid = -1
             THEN CombineFrom(vals, hoy, ids, sid + 1, AddPair(acc, 0, 0))
             ELSE IF ~HasKey(vals, sid, stateid)
             THEN Raise("IndexError", hoy)
             ELSE IF ~HasEntry(vals, sid, stateid, hoy)
             THEN Raise("ValueError", hoy)
             ELSE LET e == EntryOf(vals, sid, stateid, hoy)
                  IN  CombineFrom(vals, hoy, ids, sid + 1,
                                  AddPair(acc, e.tot, e.dir))

Zeros(n) == [i \in 1..n |-> 0]

\* combined_value_by_id(hoy, blinds_state_ids)
CombinedValueById(vals, loaded, srcs, hoy, blinds_state_ids) ==
    LET ids == IF blinds_state_ids = <<>> THEN Zeros(Len(srcs))
               ELSE blinds_state_ids
        start == Ok(0, IF loaded THEN 0 ELSE None)
    IN  IF Len(srcs) # Len(ids) THEN Raise("AssertionError", hoy)
        ELSE CombineFrom(vals, hoy, ids, 0, start)

\* the outcome of combined_values_by_id once its generator is consumed
OkMany(pairs) == [status |-> "ok", pairs |-> pairs, hoy |-> None]
RaiseMany(exc, h) == [status |-> exc, pairs |-> <<>>, hoy |-> h]

\* the body of the loop over enumerate(hoys) of combined_values_by_id: the
\* pairs yielded from position count on, or the first exception raised
RECURSIVE CombineHours(_, _, _, _, _)
CombineHours(vals, loaded, hs, idss, count) ==
    IF count >= Len(hs) THEN OkMany(<<>>)
    ELSE LET start == Ok(0, IF loaded THEN 0 ELSE None)
             one == CombineFrom(vals, hs[count + 1], idss[count + 1], 0, start)
         IN  IF one.status # "ok" THEN RaiseMany(one.status, one.hoy)
             ELSE LET rest == CombineHours(vals, loaded, hs, idss, count + 1)
                  IN  IF rest.status # "ok" THEN rest
                      ELSE OkMany(<<(<<one.total, one.direct>>)>> \o rest.pairs)

\* combined_values_by_id(hoys, blinds_state_ids), consumed to its end
CombinedValuesById(vals, loaded, srcs, gridHoys, hs_arg, blinds_state_ids) ==
    LET hs == IF hs_arg = <<>> THEN gridHoys ELSE hs_arg
        idss == IF blinds_state_ids = <<>>
                THEN [i \in 1..Len(hs) |-> Zeros(Len(srcs))]
                ELSE blinds_state_ids
    IN  IF Len(hs) # Len(idss) THEN RaiseMany("AssertionError", None)
        ELSE CombineHours(vals, loaded, hs, idss, 0)

----------------------------------------------------------------------------
(* The store specification: any writes, then any read *)

\* blind combinations the reads are tried with: every combination of valid
\* state ids and -1, no combination, and combinations of a wrong length
ValidCombos ==
    {c \in UNION {[1..n -> -1..(MaxStates - 1)] : n \in 0..MaxSources} :
        /\ Len(c) = Len(sources)
        /\ \A i \in 1..Len(c) : c[i] < sources[i]}

WrongCombos == {<<>>, <<0>>, <<0, 0, 0>>}

ManyCombos == {<<0, 0>>, <<-1, 0>>, <<1>>}

ManyHoys == {<<0, 1>>, <<1>>}

GetCoupled(hoy, sid, stateid) ==
    /\ res = Idle
    /\ res' = [op |-> "coupled_value_by_id", hoy |-> hoy,
               key |-> <<sid, stateid>>,
               out |-> CoupledValueById(values, hoy, sid, stateid)]
    /\ UNCHANGED <<gridVars, sources, hoys, values, isDirectLoaded, written, nops, inp>>

Combine(hoy, ids) ==
    /\ res = Idle
    /\ res' = [op |-> "combined_value_by_id", hoy |-> hoy, ids |-> ids,
               out |-> CombinedValueById(values, isDirectLoaded, sources,
                                         hoy, ids)]
    /\ UNCHANGED <<gridVars, sources, hoys, values, isDirectLoaded, written, nops, inp>>

CombineMany(hs, idss) ==
    /\ res = Idle
    /\ res' = [op |-> "combined_values_by_id", hs |-> hs, idss |-> idss,
               out |-> CombinedValuesById(values, isDirectLoaded, sources,
                                          hoys, hs, idss)]
    /\ UNCHANGED <<gridVars, sources, hoys, values, isDirectLoaded, written, nops, inp>>

\* the caller takes the outcome of the call it made: the program is single
\* threaded and synchronous, a call returns before the next one is made
Return ==
    /\ res # Idle
    /\ res' = Idle
    /\ UNCHANGED <<gridVars, sources, hoys, values, isDirectLoaded, written, nops, inp>>

NoInput == [fn |-> "none"]

Init ==
    /\ sources = <<2, 1>>
    /\ hoys = <<0, 1>>
    /\ values = EmptyStore(sources, StoreHoys)
    /\ isDirectLoaded = FALSE
    /\ written = [k \in Keys \X StoreHoys |-> NeverWritten]
    /\ nops = 0
    /\ inp = NoInput
    /\ res = Idle
    /\ NoGrid

Next ==
    \/ \E k \in Keys, h \in StoreHoys \cup {None}, v \in SingleVals,
          is_direct \in BOOLEAN :
          SetValue(v, h, k[1], k[2], is_direct)
    \/ \E k \in Keys, h \in StoreHoys \cup {None}, t \in StoreVals, d \in StoreVals :
          SetCoupledValue(t, d, h, k[1], k[2])
    \/ \E k \in Keys, h \in StoreHoys : GetCoupled(h, k[1], k[2])
    \/ \E h \in StoreHoys, ids \in ValidCombos \cup WrongCombos : Combine(h, ids)
    \/ \E hs \in ManyHoys : \E idss \in [1..Len(hs) -> ManyCombos] :
          CombineMany(hs, idss)
    \/ Return

Spec == Init /\ [][Next]_vars

----------------------------------------------------------------------------
(* Properties of the store *)

\* the history of the key a combination selects for source sid at an hour
Selected(ids, sid, hoy) == written[<<(<<sid, ids[sid + 1]>>), hoy>>]

\* the sources a combination does not exclude
Included(ids) == {sid \in 0..(Len(ids) - 1) : ids[sid + 1] # -1}

\* the sum, over the included sources from sid on, of the totals (comp = 1)
\* or directs (comp = 2) last stored by coupled writes
RECURSIVE SumWritten(_, _, _, _)
SumWritten(ids, hoy, sid, comp) ==
    IF sid >= Len(ids) THEN 0
    ELSE (IF ids[sid + 1] = -1 THEN 0
          ELSE IF comp = 1 THEN Selected(ids, sid, hoy).t
          ELSE Selected(ids, sid, hoy).d)
         + SumWritten(ids, hoy, sid + 1, comp)

AllCoupled(ids, hoy) ==
    \A sid \in Included(ids) : Selected(ids, sid, hoy).by = "set_coupled_value"

AllWritten(ids, hoy) ==
    \A sid \in Included(ids) : Selected(ids, sid, hoy).by # "none"

IsCombo(ids) ==
    /\ Len(ids) = Len(sources)
    /\ \A i \in 1..Len(ids) : ids[i] >= -1 /\ ids[i] < sources[i]

ReadOps == {"coupled_value_by_id", "combined_value_by_id",
            "combined_values_by_id"}

\* the outcome of a single read: ok exactly when every required entry was
\* written, and otherwise the ValueError that names the requested hour
C2_ReadOutcome ==
    /\ (res.op = "coupled_value_by_id") =>
          IF written[<<res.key, res.hoy>>].by # "none"
          THEN res.out.status = "ok"
          ELSE res.out = Raise("ValueError", res.hoy)
    /\ (res.op = "combined_value_by_id" /\ IsCombo(res.ids)) =>
          IF AllWritten(res.ids, res.hoy)
          THEN res.out.status = "ok"
          ELSE res.out = Raise("ValueError", res.hoy)

\* C2: after any sequence of writes, coupled_value_by_id and
\* combined_value_by_id succeed only if an entry was stored for every
\* required (source, state, hour); otherwise they raise the ValueError that
\* carries the missing hour, and a read never changes the store.
C2_MissingEntryRaises ==
    /\ []C2_ReadOutcome
    /\ [][(res'.op \in ReadOps) =>
             (values' = values /\ isDirectLoaded' = isDirectLoaded)]_vars

\* C2 witness: a combination read failed on the hour that was never written
\* while the same key holds a value for the other hour.
C2_Witness ==
    /\ res.op = "combined_value_by_id"
    /\ res.ids = <<0, -1>>
    /\ res.hoy = 1
    /\ written[<<(<<0, 0>>), 0>>].by # "none"
    /\ res.out = Raise("ValueError", 1)

\* the expected outcome of one hour's combination under the -1 sentinel
SentinelOutcome(ids, hoy, out) ==
    /\ (out.status = "ok") = AllWritten(ids, hoy)
    /\ (out.status = "ok" /\ AllCoupled(ids, hoy)) =>
          /\ out.total = SumWritten(ids, hoy, 0, 1)
          /\ out.direct = IF isDirectLoaded
                          THEN SumWritten(ids, hoy, 0, 2) ELSE None

\* C3: in combined_value_by_id and combined_values_by_id a source whose state
\* id is -1 is never looked up and adds 0 to total and direct: the read
\* succeeds whatever the store holds for that source, and returns the sum
\* over the other sources.
C3_ExcludedSourceAddsZero ==
    /\ (res.op = "combined_value_by_id" /\ IsCombo(res.ids)) =>
          SentinelOutcome(res.ids, res.hoy, res.out)
    /\ (/\ res.op = "combined_values_by_id"
        /\ \A i \in 1..Len(res.idss) : IsCombo(res.idss[i])
        /\ res.out.status = "ok") =>
          \A i \in 1..Len(res.hs) :
             SentinelOutcome(res.idss[i], res.hs[i],
                             Ok(res.out.pairs[i][1], res.out.pairs[i][2]))

\* C3 witness: source 0 is excluded and holds nothing at all, source 1 was
\* set, and the combination read returns source 1's pair.
C3_Witness ==
    /\ res.op = "combined_value_by_id"
    /\ res.ids = <<-1, 0>>
    /\ \A st \in 0..1, h \in StoreHoys : written[<<(<<0, st>>), h>>].by = "none"
    /\ Selected(res.ids, 1, res.hoy).by = "set_coupled_value"
    /\ res.out = Ok(2, 1)

\* C4 (as claimed): no read is given a combination whose length differs from
\* the number of sources and evaluates it: combined_value_by_id and
\* combined_values_by_id fail on it.
C4_WrongLengthNeverEvaluated ==
    /\ (res.op = "combined_value_by_id" /\ res.ids # <<>>
        /\ Len(res.ids) # Len(sources)) => res.out.status # "ok"
    /\ (res.op = "combined_values_by_id"
        /\ \E i \in 1..Len(res.idss) : Len(res.idss[i]) # Len(sources))
          => res.out.status # "ok"

----------------------------------------------------------------------------
(* The blind-state ladder *)

Min(a, b) == IF a <= b THEN a ELSE b

SeqMax(s) == CHOOSE m \in {s[j] : j \in DOMAIN s} : \A j \in DOMAIN s : s[j] <= m

\* mutant of LadderRange: range(max(states)), the last combination lost
LadderRangeShort(states) == 0..(SeqMax(states) - 1)

\* range(max(states) + 1): the indices of the ladder's combinations
LadderRange(states) == 0..SeqMax(states)

\* longest_state_ids: the last state id of every source, and one combination
\* per index i of the range, source by source min(s, i)
LongestStateIds(srcs) ==
    LET states == [j \in 1..Len(srcs) |-> srcs[j] - 1]
    IN  IF Len(states) = 0
        THEN [status |-> "ValueError", ids |-> <<>>]
        ELSE [status |-> "ok",
              ids |-> [i \in {r + 1 : r \in LadderRange(states)} |->
                          [j \in 1..Len(states) |-> Min(states[j], i - 1)]]]

GetLongestStateIds ==
    /\ inp.fn = "longest_state_ids"
    /\ res = Idle
    /\ res' = [op |-> "longest_state_ids", out |-> LongestStateIds(sources)]
    /\ UNCHANGED <<gridVars, sources, hoys, values, isDirectLoaded, written, nops, inp>>

\* every list of at most MaxSources sources with 1..MaxStates states each
SourceLists == UNION {[1..n -> 1..MaxStates] : n \in 0..MaxSources}

InitLadder ==
    /\ sources \in SourceLists
    /\ hoys = <<>>
    /\ values = EmptyStore(sources, {})
    /\ isDirectLoaded = FALSE
    /\ written = <<>>
    /\ nops = 0
    /\ inp = [fn |-> "longest_state_ids"]
    /\ res = Idle
    /\ NoGrid

NextLadder == GetLongestStateIds

SpecLadder == InitLadder /\ [][NextLadder]_vars

\* C5: for N >= 1 sources with state counts c_0..c_{N-1}, longest_state_ids
\* returns exactly max(c_i) combinations and combination i gives source j the
\* state min(c_j - 1, i); for [2, 4] it is (0,0),(1,1),(1,2),(1,3); with no
\* source it raises instead of returning an empty ladder.
C5_LadderShape ==
    (res.op = "longest_state_ids") =>
        /\ (Len(sources) = 0) => res.out.status = "ValueError"
        /\ (Len(sources) >= 1) =>
              /\ res.out.status = "ok"
              /\ \E j \in 1..Len(sources) : Len(res.out.ids) = sources[j]
              /\ \A j \in 1..Len(sources) : Len(res.out.ids) >= sources[j]
              /\ \A i \in 0..(Len(res.out.ids) - 1), j \in 1..Len(sources) :
                    res.out.ids[i + 1][j] =
                        (IF sources[j] - 1 <= i THEN sources[j] - 1 ELSE i)
        /\ (sources = <<2, 4>>) =>
              res.out.ids = << <<0, 0>>, <<1, 1>>, <<1, 2>>, <<1, 3>> >>

\* C5 witness: the ladder of the state counts [2, 4] was computed.
C5_Witness ==
    /\ res.op = "longest_state_ids"
    /\ sources = <<2, 4>>
    /\ Len(res.out.ids) = 4

----------------------------------------------------------------------------
(* The greedy per-hour blind control *)

LogicThreshold == 3000

\* mutant of DefaultLogic: the direct value is tested, not the total
DefaultLogicOnDirect(ill, ill_dir, h) == ill_dir > LogicThreshold

\* _logic(*args, **kwargs), called as logic(ill, ill_dir, h, args, kwargs):
\* args[0] > 3000
DefaultLogic(ill, ill_dir, h) == ill > LogicThreshold

\* self.logic: _logic unless it was overwritten; the control predicates a
\* caller overwrites it with here: the direct value against the threshold,
\* one that is never satisfied, and one that depends on the hour
LogicKinds == {"default", "direct", "always", "hour"}

Logic(kind, ill, ill_dir, h) ==
    CASE kind = "default" -> DefaultLogic(ill, ill_dir, h)
      [] kind = "direct" -> ill_dir > LogicThreshold
      [] kind = "always" -> TRUE
      [] kind = "hour" -> (h = 0 /\ ill > 0)

\* mutant of PickState: no break, the last accepted combination wins
RECURSIVE PickStateNoBreak(_, _, _, _, _, _)
PickStateNoBreak(kind, results, count, h, state, picked) ==
    IF state >= Len(results)
    THEN IF picked.success # -1 THEN picked
         ELSE [index |-> Len(results) - 1,
               ill |-> results[Len(results)][count + 1][1],
               dir |-> results[Len(results)][count + 1][2],
               success |-> -1]
    ELSE LET r == results[state + 1][count + 1]
         IN  IF ~Logic(kind, r[1], r[2], h)
             THEN PickStateNoBreak(kind, results, count, h, state + 1,
                      [index |-> state, ill |-> r[1], dir |-> r[2],
                       success |-> IF state > 0 THEN 1 ELSE 0])
             ELSE PickStateNoBreak(kind, results, count, h, state + 1, picked)

\* mutant of PickState: after the first hour the search starts from the
\* second combination, as if blinds once lowered were never fully raised
RECURSIVE PickStateAfterFirst(_, _, _, _, _, _)
PickStateAfterFirst(kind, results, count, h, state, picked) ==
    IF state >= Len(results)
    THEN [index |-> picked.index,
          ill |-> results[Len(results)][count + 1][1],
          dir |-> results[Len(results)][count + 1][2],
          success |-> -1]
    ELSE IF state = 0 /\ count > 0 /\ Len(results) > 1
    THEN PickStateAfterFirst(kind, results, count, h, 1, picked)
    ELSE LET r == results[state + 1][count + 1]
         IN  IF ~Logic(kind, r[1], r[2], h)
             THEN [index |-> state, ill |-> r[1], dir |-> r[2],
                   success |-> IF state > 0 THEN 1 ELSE picked.success]
             ELSE PickStateAfterFirst(kind, results, count, h, state + 1,
                                      picked)

\* for state in range(len(comb_ids)): ... break / else: ..., for the hour at
\* position count; picked is what the lists hold for the hour before the loop
RECURSIVE PickState(_, _, _, _, _, _)
PickState(kind, results, count, h, state, picked) ==
    IF state >= Len(results)
    THEN [index |-> picked.index,
          ill |-> results[Len(results)][count + 1][1],
          dir |-> results[Len(results)][count + 1][2],
          success |-> -1]
    ELSE LET r == results[state + 1][count + 1]
         IN  IF ~Logic(kind, r[1], r[2], h)
             THEN [index |-> state, ill |-> r[1], dir |-> r[2],
                   success |-> IF state > 0 THEN 1 ELSE picked.success]
             ELSE PickState(kind, results, count, h, state + 1, picked)

\* results[count] = tuple(combined_values_by_id(hoys, [state] * len(hoys))),
\* for each combination from position count on
RECURSIVE CollectResults(_, _, _, _, _, _, _)
CollectResults(vals, loaded, srcs, gridHoys, hs, comb_ids, count) ==
    IF count >= Len(comb_ids) THEN [status |-> "ok", rows |-> <<>>, hoy |-> None]
    ELSE LET one == CombinedValuesById(vals, loaded, srcs, gridHoys, hs,
                        [i \in 1..Len(hs) |-> comb_ids[count + 1]])
         IN  IF one.status # "ok"
             THEN [status |-> one.status, rows |-> <<>>, hoy |-> one.hoy]
             ELSE LET rest == CollectResults(vals, loaded, srcs, gridHoys, hs,
                                             comb_ids, count + 1)
                  IN  IF rest.status # "ok" THEN rest
                      ELSE [rest EXCEPT !.rows = <<one.pairs>> \o rest.rows]

BlindsFailed(exc, h) ==
    [status |-> exc, hoy |-> h, blinds_state |-> <<>>, blinds_index |-> <<>>,
     ill_values |-> <<>>, dir_values |-> <<>>, success |-> <<>>]

\* blinds_state(hoys, blinds_state_ids) under the control predicate kind
BlindsState(vals, loaded, srcs, gridHoys, hs_arg, blinds_state_ids, kind) ==
    LET hs == IF hs_arg = <<>> THEN gridHoys ELSE hs_arg
        ladder == LongestStateIds(srcs)
    IN  IF blinds_state_ids # <<>>
           /\ \E c \in 1..Len(blinds_state_ids) :
                 Len(blinds_state_ids[c]) < Len(srcs)
        THEN BlindsFailed("ValueError", None)
        ELSE IF blinds_state_ids = <<>> /\ ladder.status # "ok"
        THEN BlindsFailed(ladder.status, None)
        ELSE
        LET comb_ids == IF blinds_state_ids # <<>> THEN blinds_state_ids
                        ELSE ladder.ids
            results == CollectResults(vals, loaded, srcs, gridHoys, hs,
                                      comb_ids, 0)
            before == [index |-> Len(comb_ids) - 1, ill |-> None,
                       dir |-> None, success |-> 0]
            pick(c) == PickState(kind, results.rows, c - 1, hs[c], 0, before)
        IN  IF results.status # "ok"
            THEN BlindsFailed(results.status, results.hoy)
            ELSE [status |-> "ok", hoy |-> None,
                  blinds_state |-> [c \in 1..Len(hs) |->
                                       comb_ids[pick(c).index + 1]],
                  blinds_index |-> [c \in 1..Len(hs) |-> pick(c).index],
                  ill_values |-> [c \in 1..Len(hs) |-> pick(c).ill],
                  dir_values |-> [c \in 1..Len(hs) |-> pick(c).dir],
                  success |-> [c \in 1..Len(hs) |-> pick(c).success]]

GetBlindsState ==
    /\ inp.fn = "blinds_state"
    /\ res = Idle
    /\ res' = [op |-> "blinds_state",
               out |-> BlindsState(values, isDirectLoaded, sources, hoys,
                                   inp.hoys, inp.blinds_state_ids, inp.logic)]
    /\ UNCHANGED <<gridVars, sources, hoys, values, isDirectLoaded, written, nops, inp>>

\* the values the blinds specification holds: totals and directs on both
\* sides of the threshold, in every pairing
BlindTotals == {100, 5000}
BlindDirects == {0, 4000}

\* the hours and combinations blinds_state is called with: the defaults
\* (every hour, the ladder), and a list of three combinations
BlindHoyArgs == {<<>>, <<1, 0>>, <<1>>}
BlindComboArgs == {<<>>, << <<0, 0>>, <<1, 0>>, <<1, -1>> >>}

\* a store that set_coupled_values filled for every key and hour
InitBlinds ==
    /\ sources = <<2, 1>>
    /\ hoys = <<0, 1>>
    /\ values \in [1..2 -> UNION {[1..n -> [{0, 1} ->
                     {TupleEntry(t, d) : t \in BlindTotals, d \in BlindDirects}]]
                        : n \in 1..2}]
    /\ Len(values[1]) = 2 /\ Len(values[2]) = 1
    /\ isDirectLoaded = TRUE
    /\ written = <<>>
    /\ nops = 0
    /\ inp \in [fn : {"blinds_state"}, hoys : BlindHoyArgs,
                blinds_state_ids : BlindComboArgs, logic : LogicKinds]
    /\ res = Idle
    /\ NoGrid

NextBlinds == GetBlindsState

SpecBlinds == InitBlinds /\ [][NextBlinds]_vars

----------------------------------------------------------------------------
(* Properties of the blind control *)

\* the combinations a blinds_state call tries, most open first
TriedCombos ==
    IF inp.blinds_state_ids # <<>> THEN inp.blinds_state_ids
    ELSE << <<0, 0>>, <<1, 0>> >>

TriedHoys == IF inp.hoys = <<>> THEN hoys ELSE inp.hoys

\* the (total, direct) of combination k (from 0) at the hour at position c
ValueOf(k, c) ==
    CombinedValueById(values, isDirectLoaded, sources, TriedHoys[c],
                      TriedCombos[k + 1])

\* the combinations the control predicate accepts at position c
Accepted(c) ==
    {k \in 0..(Len(TriedCombos) - 1) :
        ~Logic(inp.logic, ValueOf(k, c).total, ValueOf(k, c).direct,
               TriedHoys[c])}

Least(S) == CHOOSE k \in S : \A j \in S : k <= j

\* C6: for every hour blinds_state chooses the first combination whose
\* predicate is false and reports that combination's (total, direct), with
\* status 0 for index 0 and 1 for a later index; when the predicate is true
\* for every combination it chooses the last one, reports the last one's
\* (total, direct), and the status is -1.
C6_GreedySelection ==
    (res.op = "blinds_state") =>
        /\ res.out.status = "ok"
        /\ Len(res.out.blinds_index) = Len(TriedHoys)
        /\ \A c \in 1..Len(TriedHoys) :
              LET k == IF Accepted(c) # {} THEN Least(Accepted(c))
                       ELSE Len(TriedCombos) - 1
              IN  /\ res.out.blinds_index[c] = k
                  /\ res.out.blinds_state[c] = TriedCombos[k + 1]
                  /\ res.out.ill_values[c] = ValueOf(k, c).total
                  /\ res.out.dir_values[c] = ValueOf(k, c).direct
                  /\ res.out.success[c] =
                        (IF Accepted(c) = {} THEN -1
                         ELSE IF k > 0 THEN 1 ELSE 0)

\* C6 witness: one call chose the first combination for an hour, a later
\* combination for the other, and in another call was forced to the last.
C6_Witness ==
    /\ res.op = "blinds_state"
    /\ inp.logic = "direct"
    /\ Len(TriedCombos) = 3
    /\ res.out.success = <<1, -1>>
    /\ res.out.blinds_index = <<1, 2>>

\* C7 (as claimed): with the default predicate a combination is rejected
\* exactly when its combined direct value exceeds 3000, whatever its total:
\* the chosen index is the first one whose direct is at most 3000.
C7_DefaultRejectsOnDirect ==
    (res.op = "blinds_state" /\ inp.logic = "default") =>
        \A c \in 1..Len(TriedHoys) :
           LET ok == {k \in 0..(Len(TriedCombos) - 1) :
                         ~(ValueOf(k, c).direct > LogicThreshold)}
           IN  /\ (ok # {}) => res.out.blinds_index[c] = Least(ok)
               /\ (ok = {}) <=> (res.out.success[c] = -1)

\* C7 (amended): with the default predicate a combination is rejected
\* exactly when its combined total value exceeds 3000, whatever its direct:
\* the chosen index is the first one whose total is at most 3000, and the
\* hour is forced exactly when every total exceeds 3000.
C7_DefaultRejectsOnTotal ==
    (res.op = "blinds_state" /\ inp.logic = "default") =>
        \A c \in 1..Len(TriedHoys) :
           LET ok == {k \in 0..(Len(TriedCombos) - 1) :
                         ~(ValueOf(k, c).total > LogicThreshold)}
           IN  /\ (ok # {}) => res.out.blinds_index[c] = Least(ok)
               /\ (ok = {}) <=> (res.out.success[c] = -1)

\* C7 witness: under the default predicate a combination with a total above
\* 3000 and direct 0 was rejected, and a later one, with total 100 and direct
\* 4000, was accepted.
C7_Witness ==
    /\ res.op = "blinds_state"
    /\ inp.logic = "default"
    /\ Len(TriedCombos) = 3
    /\ \E c \in 1..Len(TriedHoys) :
          /\ ValueOf(0, c) = Ok(5100, 0)
          /\ ValueOf(2, c) = Ok(100, 4000)
          /\ res.out.blinds_index[c] = 2
          /\ res.out.success[c] = 1

----------------------------------------------------------------------------
(* The annual metrics of a sensor *)

\* an occupancy schedule argument: None, or a set of hours of the year
NoSchedule == [given |-> FALSE, hours |-> {}]
ScheduleOf(hs) == [given |-> TRUE, hours |-> hs]

\* set(hours)
HourSet(hours) == {hours[i] : i \in 1..Len(hours)}

\* schedule = occ_schedule or set(hours): None and the empty set are falsy
ScheduleOr(occ_schedule, hours) ==
    IF occ_schedule.given /\ occ_schedule.hours # {}
    THEN occ_schedule.hours
    ELSE HourSet(hours)

\* a percentage 100 * n / d as the exact fraction it is the division of
Percent(n, d) == <<100 * n, d>>
SameFraction(a, b) == a[1] * b[2] = b[1] * a[2]

MetricFailed(exc, h) == [status |-> exc, hoy |-> h]

\* tuple(v[0] for v in self.combined_values_by_id(hours, blinds_state_ids))
TotalsOf(combined) == [i \in 1..Len(combined.pairs) |-> combined.pairs[i][1]]

DefaultDaThreshold == 300

\* mutant of MeetsThreshold: a total equal to the threshold does not count
MeetsThresholdStrict(v, da_threshhold) == v > da_threshhold

\* if v >= da_threshhold
MeetsThreshold(v, da_threshhold) == v >= da_threshhold

\* mutant of DaLoop: an hour that meets the threshold adds total / threshold
\* to cda, not 1
RECURSIVE DaLoopUncapped(_, _, _, _, _, _)
DaLoopUncapped(hours, vs, da_threshhold, schedule, i, acc) ==
    IF i > Len(hours) \/ i > Len(vs) THEN acc
    ELSE IF hours[i] \notin schedule
    THEN DaLoopUncapped(hours, vs, da_threshhold, schedule, i + 1,
                        [acc EXCEPT !.total_hour_count = @ - 1])
    ELSE IF MeetsThreshold(vs[i], da_threshhold)
    THEN DaLoopUncapped(hours, vs, da_threshhold, schedule, i + 1,
                        [acc EXCEPT !.DA = @ + 1, !.cda = @ + vs[i]])
    ELSE DaLoopUncapped(hours, vs, da_threshhold, schedule, i + 1,
                        [acc EXCEPT !.cda = @ + vs[i]])

\* the loop of daylight_autonomy over izip(hours, values) from position i
\* on; cda is kept in units of 1 / da_threshhold
RECURSIVE DaLoop(_, _, _, _, _, _)
DaLoop(hours, vs, da_threshhold, schedule, i, acc) ==
    IF i > Len(hours) \/ i > Len(vs) THEN acc
    ELSE IF hours[i] \notin schedule
    THEN DaLoop(hours, vs, da_threshhold, schedule, i + 1,
                [acc EXCEPT !.total_hour_count = @ - 1])
    ELSE IF MeetsThreshold(vs[i], da_threshhold)
    THEN DaLoop(hours, vs, da_threshhold, schedule, i + 1,
                [acc EXCEPT !.DA = @ + 1, !.cda = @ + da_threshhold])
    ELSE DaLoop(hours, vs, da_threshhold, schedule, i + 1,
                [acc EXCEPT !.cda = @ + vs[i]])

\* daylight_autonomy(da_threshhold, blinds_state_ids, occ_schedule)
DaylightAutonomy(vals, loaded, srcs, gridHoys, da_threshhold, blinds_state_ids, occ_schedule) ==
    LET thr == IF da_threshhold = None \/ da_threshhold = 0
               THEN DefaultDaThreshold ELSE da_threshhold
        hours == gridHoys
        schedule == ScheduleOr(occ_schedule, hours)
        combined == CombinedValuesById(vals, loaded, srcs, gridHoys, hours,
                                       blinds_state_ids)
    IN  IF combined.status # "ok"
        THEN MetricFailed(combined.status, combined.hoy)
        ELSE LET acc == DaLoop(hours, TotalsOf(combined), thr, schedule, 1,
                               [DA |-> 0, cda |-> 0,
                                total_hour_count |-> Len(hours)])
             IN  IF acc.total_hour_count = 0
                 THEN MetricFailed("ValueError", None)
                 ELSE [status |-> "ok", hoy |-> None,
                       DA |-> Percent(acc.DA, acc.total_hour_count),
                       cda |-> Percent(acc.cda, thr * acc.total_hour_count)]

\* _calculate_daylight_autonomy(values, hoys, da_threshhold, None,
\* occ_schedule): the same loop over values the caller supplies
CalculateDaylightAutonomy(vs, hs, da_threshhold, occ_schedule) ==
    LET thr == IF da_threshhold = None \/ da_threshhold = 0
               THEN DefaultDaThreshold ELSE da_threshhold
        schedule == ScheduleOr(occ_schedule, hs)
        acc == DaLoop(hs, vs, thr, schedule, 1,
                      [DA |-> 0, cda |-> 0, total_hour_count |-> Len(hs)])
    IN  IF acc.total_hour_count = 0
        THEN MetricFailed("ValueError", None)
        ELSE [status |-> "ok", hoy |-> None,
              DA |-> Percent(acc.DA, acc.total_hour_count),
              cda |-> Percent(acc.cda, thr * acc.total_hour_count)]

DefaultUdiMin == 100
DefaultUdiMax == 2000

\* mutant of UdiClass: a total equal to the upper bound counts as high
UdiClassUpperExclusive(v, udiMin, udiMax) ==
    IF v < udiMin THEN "udi_l" ELSE IF v >= udiMax THEN "udi_m" ELSE "udi"

\* if v < udiMin: udi_l; elif v > udiMax: udi_m; else: udi
UdiClass(v, udiMin, udiMax) ==
    IF v < udiMin THEN "udi_l" ELSE IF v > udiMax THEN "udi_m" ELSE "udi"

\* the loop of useful_daylight_illuminance over izip(hours, values)
RECURSIVE UdiLoop(_, _, _, _, _, _, _)
UdiLoop(hours, vs, udiMin, udiMax, schedule, i, acc) ==
    IF i > Len(hours) \/ i > Len(vs) THEN acc
    ELSE IF hours[i] \notin schedule
    THEN UdiLoop(hours, vs, udiMin, udiMax, schedule, i + 1,
                 [acc EXCEPT !.total_hour_count = @ - 1])
    ELSE UdiLoop(hours, vs, udiMin, udiMax, schedule, i + 1,
                 [acc EXCEPT ![UdiClass(vs[i], udiMin, udiMax)] = @ + 1])

\* useful_daylight_illuminance(udi_min_max, blinds_state_ids, occ_schedule)
UsefulDaylightIlluminance(vals, loaded, srcs, gridHoys, udi_min_max, blinds_state_ids, occ_schedule) ==
    LET mm == IF udi_min_max = <<>> THEN <<DefaultUdiMin, DefaultUdiMax>>
              ELSE udi_min_max
        hours == gridHoys
        schedule == ScheduleOr(occ_schedule, hours)
        combined == CombinedValuesById(vals, loaded, srcs, gridHoys, hours,
                                       blinds_state_ids)
    IN  IF combined.status # "ok"
        THEN MetricFailed(combined.status, combined.hoy)
        ELSE LET acc == UdiLoop(hours, TotalsOf(combined), mm[1], mm[2],
                                schedule, 1,
                                [udi |-> 0, udi_l |-> 0, udi_m |-> 0,
                                 total_hour_count |-> Len(hours)])
             IN  IF acc.total_hour_count = 0
                 THEN MetricFailed("ValueError", None)
                 ELSE [status |-> "ok", hoy |-> None,
                       udi |-> Percent(acc.udi, acc.total_hour_count),
                       udi_l |-> Percent(acc.udi_l, acc.total_hour_count),
                       udi_m |-> Percent(acc.udi_m, acc.total_hour_count)]

GetDaylightAutonomy ==
    /\ inp.fn = "daylight_autonomy"
    /\ res = Idle
    /\ res' = [op |-> "daylight_autonomy",
               out |-> DaylightAutonomy(values, isDirectLoaded, sources, hoys,
                          inp.da_threshhold, <<>>, inp.occ_schedule)]
    /\ UNCHANGED <<gridVars, sources, hoys, values, isDirectLoaded, written, nops, inp>>

GetUsefulDaylightIlluminance ==
    /\ inp.fn = "useful_daylight_illuminance"
    /\ res = Idle
    /\ res' = [op |-> "useful_daylight_illuminance",
               out |-> UsefulDaylightIlluminance(values, isDirectLoaded,
                          sources, hoys, inp.udi_min_max, <<>>,
                          inp.occ_schedule)]
    /\ UNCHANGED <<gridVars, sources, hoys, values, isDirectLoaded, written, nops, inp>>

\* the static form, called with the sensor's hours and stored totals
GetCalculateDaylightAutonomy ==
    /\ inp.fn = "_calculate_daylight_autonomy"
    /\ res = Idle
    /\ res' = [op |-> "_calculate_daylight_autonomy",
               out |-> CalculateDaylightAutonomy(
                          [i \in 1..Len(hoys) |-> values[1][1][hoys[i]].tot],
                          hoys, inp.da_threshhold, inp.occ_schedule)]
    /\ UNCHANGED <<gridVars, sources, hoys, values, isDirectLoaded, written, nops, inp>>

\* the totals the metrics specification stores: none at all, and below, on
\* and above the default thresholds 100, 300 and 2000
MetricTotals == {0, 50, 100, 300, 2000, 2500}

\* the totals of the spec's two worked examples
ExampleTotals == {<<100, 300, 600, 150>>, <<50, 150, 2500, 900>>}

\* the schedules a metric is called with: none, and every set of the hours
\* 0..MaxHours-1, the empty one and those outside the dataset included
ScheduleArgs == {NoSchedule} \cup {ScheduleOf(hs) : hs \in SUBSET (0..(MaxHours - 1))}

DaThresholdArgs == {None, 100}
UdiMinMaxArgs == {<<>>, <<100, 300>>}

MetricCalls(schedules) ==
    [fn : {"daylight_autonomy", "_calculate_daylight_autonomy"},
     da_threshhold : DaThresholdArgs,
     occ_schedule : schedules]
    \cup [fn : {"useful_daylight_illuminance"}, udi_min_max : UdiMinMaxArgs,
          occ_schedule : schedules]

\* the store of a sensor with one source in one state, after set_values
\* stored the totals for the hours 0..n-1
TotalsStore(totals) ==
    << << [h \in 0..(Len(totals) - 1) |-> ListEntry(totals[h + 1], None)] >> >>

InitMetrics ==
    /\ sources = <<1>>
    /\ \E totals \in UNION {[1..n -> MetricTotals] : n \in 0..MaxHours}
                     \cup ExampleTotals :
          /\ hoys = [i \in 1..Len(totals) |-> i - 1]
          /\ values = TotalsStore(totals)
          /\ inp \in MetricCalls(IF totals \in ExampleTotals
                                 THEN {NoSchedule} ELSE ScheduleArgs)
    /\ isDirectLoaded = FALSE
    /\ written = <<>>
    /\ nops = 0
    /\ res = Idle
    /\ NoGrid

NextMetrics ==
    \/ GetDaylightAutonomy
    \/ GetCalculateDaylightAutonomy
    \/ GetUsefulDaylightIlluminance

SpecMetrics == InitMetrics /\ [][NextMetrics]_vars

----------------------------------------------------------------------------
(* Properties of the annual metrics *)

\* the positions of the dataset's hours that belong to the schedule the call
\* supplied; every position when it supplied none
ScheduledPositions ==
    {c \in 1..Len(hoys) :
        inp.occ_schedule.given => hoys[c] \in inp.occ_schedule.hours}

\* the total stored for the hour at position c
StoredTotal(c) == values[1][1][hoys[c]].tot

RECURSIVE SumCapped(_, _)
\* the sum over the positions S of min(cap, total)
SumCapped(S, cap) ==
    IF S = {} THEN 0
    ELSE LET c == CHOOSE x \in S : TRUE
         IN  Min(cap, StoredTotal(c)) + SumCapped(S \ {c}, cap)

DaOps == {"daylight_autonomy", "_calculate_daylight_autonomy"}
ThresholdUsed == IF inp.da_threshhold = None THEN 300 ELSE inp.da_threshhold

\* C8: with at least one scheduled hour, daylight_autonomy (and its static
\* form) returns DA = 100 * #{scheduled hours with total >= threshold} /
\* #{scheduled hours} and cDA = 100 * (sum over scheduled hours of
\* min(1, total / threshold)) / #{scheduled hours}; unscheduled hours are in
\* neither numerator nor denominator.  For the totals [100, 300, 600, 150],
\* all scheduled, threshold 300: DA = 50 and cDA = 70.83 to two decimals.
C8_DaylightAutonomyFormula ==
    (res # Idle /\ res.op \in DaOps /\ ScheduledPositions # {}) =>
        LET n == Cardinality(ScheduledPositions)
            met == {c \in ScheduledPositions : StoredTotal(c) >= ThresholdUsed}
        IN  /\ res.out.status = "ok"
            /\ SameFraction(res.out.DA, <<100 * Cardinality(met), n>>)
            /\ SameFraction(res.out.cda,
                   <<100 * SumCapped(ScheduledPositions, ThresholdUsed),
                     ThresholdUsed * n>>)
            /\ ( /\ Len(hoys) = 4
                 /\ [c \in 1..4 |-> StoredTotal(c)] = <<100, 300, 600, 150>>
                 /\ inp.da_threshhold = None )
               => /\ SameFraction(res.out.DA, <<50, 1>>)
                  /\ 7083 * res.out.cda[2] <= 100 * res.out.cda[1]
                  /\ 100 * res.out.cda[1] < 7084 * res.out.cda[2]

\* daylight_autonomy answered for a schedule that leaves an hour out and
\* keeps hours below, on and above the threshold
C8_Witness ==
    /\ res # Idle /\ res.op = "daylight_autonomy"
    /\ Len(hoys) = 3
    /\ inp.occ_schedule = ScheduleOf({0, 2})
    /\ inp.da_threshhold = None
    /\ StoredTotal(1) = 100 /\ StoredTotal(2) = 2500 /\ StoredTotal(3) = 300
    /\ res.out.status = "ok"
    /\ res.out.DA = <<100, 2>>
    /\ res.out.cda = <<40000, 600>>

MetricOps == DaOps \cup {"useful_daylight_illuminance"}

\* C9 (as claimed): every percentage metric fails with the ValueError for an
\* empty schedule whenever no hour of the dataset belongs to the supplied
\* schedule, the empty set included.
C9_EmptyScheduleRaises ==
    (res # Idle /\ res.op \in MetricOps /\ ScheduledPositions = {}) =>
        res.out.status = "ValueError"

UdiBounds == IF inp.udi_min_max = <<>> THEN <<100, 2000>> ELSE inp.udi_min_max

\* C10: useful_daylight_illuminance puts every scheduled hour in exactly one
\* of low (total < min), useful (min <= total <= max) and high (total > max),
\* returns 100 * class count / #{scheduled hours} for each, and the three sum
\* to 100.  For [50, 150, 2500, 900] with (100, 2000): 25 low, 50 useful,
\* 25 high.
C10_UdiPartition ==
    (res # Idle /\ res.op = "useful_daylight_illuminance"
                /\ ScheduledPositions # {}) =>
        LET n == Cardinality(ScheduledPositions)
            low == {c \in ScheduledPositions : StoredTotal(c) < UdiBounds[1]}
            high == {c \in ScheduledPositions : StoredTotal(c) > UdiBounds[2]}
            useful == {c \in ScheduledPositions :
                          /\ UdiBounds[1] <= StoredTotal(c)
                          /\ StoredTotal(c) <= UdiBounds[2]}
            o == res.out
        IN  /\ o.status = "ok"
            /\ SameFraction(o.udi_l, <<100 * Cardinality(low), n>>)
            /\ SameFraction(o.udi, <<100 * Cardinality(useful), n>>)
            /\ SameFraction(o.udi_m, <<100 * Cardinality(high), n>>)
            /\ o.udi[2] = n /\ o.udi_l[2] = n /\ o.udi_m[2] = n
            /\ o.udi[1] + o.udi_l[1] + o.udi_m[1] = 100 * n
            /\ ( /\ Len(hoys) = 4
                 /\ [c \in 1..4 |-> StoredTotal(c)] = <<50, 150, 2500, 900>>
                 /\ inp.udi_min_max = <<>> )
               => /\ SameFraction(o.udi_l, <<25, 1>>)
                  /\ SameFraction(o.udi, <<50, 1>>)
                  /\ SameFraction(o.udi_m, <<25, 1>>)

\* useful_daylight_illuminance answered with totals on both bounds and one
\* in each class, an hour left out of the schedule
C10_Witness ==
    /\ res # Idle /\ res.op = "useful_daylight_illuminance"
    /\ Len(hoys) = 3
    /\ inp.occ_schedule = ScheduleOf({0, 1})
    /\ inp.udi_min_max = <<>>
    /\ StoredTotal(1) = 100 /\ StoredTotal(2) = 2000 /\ StoredTotal(3) = 50
    /\ res.out.status = "ok"
    /\ res.out.udi = <<200, 2>>
    /\ res.out.udi_l = <<0, 2>>
    /\ res.out.udi_m = <<0, 2>>

----------------------------------------------------------------------------
(* annual_metrics of a sensor: the single-pass form of the two metrics *)

\* the loop of _calculate_annual_metrics over izip(hours, values); cda is
\* kept in units of 1 / da_threshhold
RECURSIVE AnnualLoop(_, _, _, _, _, _, _, _)
AnnualLoop(hours, vs, da_threshhold, udiMin, udiMax, schedule, i, acc) ==
    IF i > Len(hours) \/ i > Len(vs) THEN acc
    ELSE IF hours[i] \notin schedule
    THEN AnnualLoop(hours, vs, da_threshhold, udiMin, udiMax, schedule, i + 1,
                    [acc EXCEPT !.total_hour_count = @ - 1])
    ELSE LET a1 == IF MeetsThreshold(vs[i], da_threshhold)
                   THEN [acc EXCEPT !.DA = @ + 1, !.cda = @ + da_threshhold]
                   ELSE [acc EXCEPT !.cda = @ + vs[i]]
             a2 == [a1 EXCEPT ![UdiClass(vs[i], udiMin, udiMax)] = @ + 1]
         IN  AnnualLoop(hours, vs, da_threshhold, udiMin, udiMax, schedule,
                        i + 1, a2)

\* _calculate_annual_metrics(values, hours, da_threshhold, udi_min_max,
\* blinds_state_ids, occ_schedule): udi_min_max is unpacked before its
\* default is applied, and an absent schedule becomes
\* Schedule.from_workday_hours(), here the set workday
CalculateAnnualMetrics(vs, hours, da_threshhold, udi_min_max, occ_schedule, workday) ==
    IF udi_min_max = <<>> THEN MetricFailed("TypeError", None)
    ELSE
    LET thr == IF da_threshhold = None \/ da_threshhold = 0
               THEN DefaultDaThreshold ELSE da_threshhold
        schedule == IF occ_schedule.given /\ occ_schedule.hours # {}
                    THEN occ_schedule.hours ELSE workday
        acc == AnnualLoop(hours, vs, thr, udi_min_max[1], udi_min_max[2],
                          schedule, 1,
                          [DA |-> 0, cda |-> 0, udi |-> 0, udi_l |-> 0,
                           udi_m |-> 0, total_hour_count |-> Len(hours)])
    IN  IF acc.total_hour_count = 0
        THEN MetricFailed("ValueError", None)
        ELSE [status |-> "ok", hoy |-> None,
              DA |-> Percent(acc.DA, acc.total_hour_count),
              cda |-> Percent(acc.cda, thr * acc.total_hour_count),
              udi |-> Percent(acc.udi, acc.total_hour_count),
              udi_l |-> Percent(acc.udi_l, acc.total_hour_count),
              udi_m |-> Percent(acc.udi_m, acc.total_hour_count)]

\* annual_metrics(da_threshhold, udi_min_max, blinds_state_ids, occ_schedule)
AnnualMetrics(vals, loaded, srcs, gridHoys, da_threshhold, udi_min_max, blinds_state_ids, occ_schedule, workday) ==
    LET hours == gridHoys
        combined == CombinedValuesById(vals, loaded, srcs, gridHoys, hours,
                                       blinds_state_ids)
    IN  IF combined.status # "ok"
        THEN MetricFailed(combined.status, combined.hoy)
        ELSE CalculateAnnualMetrics(TotalsOf(combined), hours, da_threshhold,
                                    udi_min_max, occ_schedule, workday)

GetAnnualMetrics ==
    /\ inp.fn = "annual_metrics"
    /\ res = Idle
    /\ res' = [op |-> "annual_metrics",
               out |-> AnnualMetrics(values, isDirectLoaded, sources, hoys,
                          inp.da_threshhold, inp.udi_min_max, <<>>,
                          inp.occ_schedule, inp.workday)]
    /\ UNCHANGED <<gridVars, sources, hoys, values, isDirectLoaded, written, nops, inp>>

\* what Schedule.from_workday_hours() may hold of the dataset's hours: none
\* of them, some, all
WorkdayArgs == {{}, {1}, 0..(MaxHours - 1)}

AnnualCalls ==
    [fn : {"annual_metrics"}, da_threshhold : DaThresholdArgs,
     udi_min_max : UdiMinMaxArgs \cup {<<100, 2000>>},
     occ_schedule : ScheduleArgs, workday : WorkdayArgs]

InitAnnual ==
    /\ sources = <<1>>
    /\ \E totals \in UNION {[1..n -> MetricTotals] : n \in 0..MaxHours} :
          /\ hoys = [i \in 1..Len(totals) |-> i - 1]
          /\ values = TotalsStore(totals)
    /\ inp \in AnnualCalls
    /\ isDirectLoaded = FALSE
    /\ written = <<>>
    /\ nops = 0
    /\ res = Idle
    /\ NoGrid

NextAnnual == GetAnnualMetrics

SpecAnnual == InitAnnual /\ [][NextAnnual]_vars

\* the two metrics called separately with the arguments of the call
SeparateDa ==
    DaylightAutonomy(values, isDirectLoaded, sources, hoys,
                     inp.da_threshhold, <<>>, inp.occ_schedule)
SeparateUdi ==
    UsefulDaylightIlluminance(values, isDirectLoaded, sources, hoys,
                              inp.udi_min_max, <<>>, inp.occ_schedule)

AgreesWithSeparate(out) ==
    IF SeparateDa.status = "ok" /\ SeparateUdi.status = "ok"
    THEN /\ out.status = "ok"
         /\ out.DA = SeparateDa.DA /\ out.cda = SeparateDa.cda
         /\ out.udi_l = SeparateUdi.udi_l
         /\ out.udi = SeparateUdi.udi
         /\ out.udi_m = SeparateUdi.udi_m
    ELSE out.status # "ok"

\* C11 (as claimed): for the same thresholds and schedule, defaults
\* included, annual_metrics returns the DA and cDA of daylight_autonomy and
\* the low, useful and high percentages of useful_daylight_illuminance.
C11_AnnualEqualsSeparate ==
    (res # Idle /\ res.op = "annual_metrics") => AgreesWithSeparate(res.out)

\* the part that holds: with the bounds and a non-empty schedule supplied
C11_AgreesWhenSupplied ==
    (res # Idle /\ res.op = "annual_metrics" /\ inp.udi_min_max # <<>>
       /\ inp.occ_schedule.given /\ inp.occ_schedule.hours # {})
    => AgreesWithSeparate(res.out)

----------------------------------------------------------------------------
(* Annual solar exposure of a sensor *)

DefaultAseThreshold == 1000
DefaultTargetHours == 250

\* has_direct_values of a sensor: whether direct values were loaded for it
HasDirectValues(loaded) == loaded

\* mutant of MissingDirect: the check of the direct values is skipped
MissingDirectIgnored(loaded) == FALSE

\* if not self.has_direct_values
MissingDirect(loaded) == ~HasDirectValues(loaded)

\* if v > threshhold: None compares below every number
Exceeds(v, threshhold) == IsNum(v) /\ v > threshhold

\* the loop of _calculate_annual_solar_exposure over izip(hoys, values)
RECURSIVE AseLoop(_, _, _, _, _, _)
AseLoop(hs, vs, threshhold, schedule, i, acc) ==
    IF i > Len(hs) \/ i > Len(vs) THEN acc
    ELSE IF hs[i] \notin schedule
    THEN AseLoop(hs, vs, threshhold, schedule, i + 1, acc)
    ELSE IF Exceeds(vs[i], threshhold)
    THEN AseLoop(hs, vs, threshhold, schedule, i + 1,
                 [ase |-> acc.ase + 1,
                  problematic_hours |-> Append(acc.problematic_hours, hs[i])])
    ELSE AseLoop(hs, vs, threshhold, schedule, i + 1, acc)

AseFailed(exc, h) ==
    [status |-> exc, hoy |-> h, success |-> FALSE, ase |-> None,
     problematic_hours |-> <<>>]

\* _calculate_annual_solar_exposure(values, hoys, threshhold,
\* blinds_state_ids, occ_schedule, target_hours)
CalculateAnnualSolarExposure(vs, hs, threshhold, occ_schedule, target_hours) ==
    LET thr == IF threshhold = None \/ threshhold = 0
               THEN DefaultAseThreshold ELSE threshhold
        target == IF target_hours = None \/ target_hours = 0
                  THEN DefaultTargetHours ELSE target_hours
        schedule == ScheduleOr(occ_schedule, hs)
        acc == AseLoop(hs, vs, thr, schedule, 1,
                       [ase |-> 0, problematic_hours |-> <<>>])
    IN  [status |-> "ok", hoy |-> None, success |-> acc.ase < target,
         ase |-> acc.ase, problematic_hours |-> acc.problematic_hours]

\* tuple(v[1] for v in self.combined_values_by_id(hoys, blinds_state_ids))
DirectsOf(combined) == [i \in 1..Len(combined.pairs) |-> combined.pairs[i][2]]

\* annual_solar_exposure(threshhold, blinds_state_ids, occ_schedule,
\* target_hours)
AnnualSolarExposure(vals, loaded, srcs, gridHoys, threshhold, blinds_state_ids, occ_schedule, target_hours) ==
    IF MissingDirect(loaded) THEN AseFailed("ValueError", None)
    ELSE LET combined == CombinedValuesById(vals, loaded, srcs, gridHoys,
                                            gridHoys, blinds_state_ids)
         IN  IF combined.status # "ok"
             THEN AseFailed(combined.status, combined.hoy)
             ELSE CalculateAnnualSolarExposure(DirectsOf(combined), gridHoys,
                      threshhold, occ_schedule, target_hours)

GetAnnualSolarExposure ==
    /\ inp.fn = "annual_solar_exposure"
    /\ res = Idle
    /\ res' = [op |-> "annual_solar_exposure",
               out |-> AnnualSolarExposure(values, isDirectLoaded, sources,
                          hoys, inp.threshhold, <<>>, inp.occ_schedule,
                          inp.target_hours)]
    /\ UNCHANGED <<gridVars, sources, hoys, values, isDirectLoaded, written, nops, inp>>

\* the entries the exposure specification stores for an hour: a total alone,
\* or a coupled pair with the direct value below, on or above the thresholds
ExposureEntries ==
    {ListEntry(2000, None)}
    \cup {TupleEntry(2000, d) : d \in {0, 500, 1000, 1001}}

AseThresholdArgs == {None, 500}
TargetHoursArgs == {None, 1, 2}

ExposureCalls ==
    [fn : {"annual_solar_exposure"}, threshhold : AseThresholdArgs,
     occ_schedule : ScheduleArgs, target_hours : TargetHoursArgs]

\* a sensor with one source in one state; direct values are loaded when a
\* coupled pair was stored
InitExposure ==
    /\ sources = <<1>>
    /\ \E es \in UNION {[0..(n - 1) -> ExposureEntries] : n \in 0..MaxHours} :
          /\ hoys = [i \in 1..Cardinality(DOMAIN es) |-> i - 1]
          /\ values = << <<es>> >>
          /\ isDirectLoaded = (\E h \in DOMAIN es : es[h].kind = "tuple")
    /\ inp \in ExposureCalls
    /\ written = <<>>
    /\ nops = 0
    /\ res = Idle
    /\ NoGrid

NextExposure == GetAnnualSolarExposure

SpecExposure == InitExposure /\ [][NextExposure]_vars

\* the direct value stored for the hour at position c, 0 when none is
StoredDirect(c) ==
    IF IsNum(values[1][1][hoys[c]].dir) THEN values[1][1][hoys[c]].dir ELSE 0

AseThresholdUsed == IF inp.threshhold = None THEN 1000 ELSE inp.threshhold
TargetHoursUsed == IF inp.target_hours = None THEN 250 ELSE inp.target_hours

OffendingPositions ==
    {c \in ScheduledPositions : StoredDirect(c) > AseThresholdUsed}

\* the hours at the offending positions, in the order of the dataset
OffendingHours ==
    LET Offends(c) == c \in OffendingPositions
        ps == SelectSeq([c \in 1..Len(hoys) |-> c], Offends)
    IN  [i \in 1..Len(ps) |-> hoys[ps[i]]]

ExposureAsClaimed(out) ==
    /\ out.status = "ok"
    /\ out.ase = Cardinality(OffendingPositions)
    /\ out.success = (out.ase < TargetHoursUsed)
    /\ out.problematic_hours = OffendingHours
    /\ Len(out.problematic_hours) = out.ase

\* C12 (as claimed): annual_solar_exposure returns the number of scheduled
\* hours with direct > threshold, success = (count < target_hours) and the
\* offending hours in input order; unscheduled hours are never counted.
C12_ExposureCounts ==
    (res # Idle /\ res.op = "annual_solar_exposure" /\ isDirectLoaded)
    => ExposureAsClaimed(res.out)

\* the part that holds: every call but the one with an empty schedule
C12_CountsWhenScheduleNotEmpty ==
    (res # Idle /\ res.op = "annual_solar_exposure" /\ isDirectLoaded
       /\ ~(inp.occ_schedule.given /\ inp.occ_schedule.hours = {}))
    => ExposureAsClaimed(res.out)

----------------------------------------------------------------------------
(* Result files and their header *)

\* a line of a result file: a header line NROWS=n or NCOLS=n, the FORMAT
\* line, the empty line after it, or a row of values
HeaderLine(kind, n) == [kind |-> kind, n |-> n, vals |-> <<>>]
RowLine(vals) == [kind |-> "row", n |-> None, vals |-> vals]

\* the hoys argument: None, or a list of hours
NoHoys == [given |-> FALSE, hs |-> <<>>]
HoysOf(hs) == [given |-> TRUE, hs |-> hs]

\* if hoys: None and an empty list are falsy
HoysTruthy(hoys_arg) == hoys_arg.given /\ hoys_arg.hs # <<>>

\* xrange(0, hours_count)
HoursRange(hours_count) == HoysOf([i \in 1..hours_count |-> i - 1])

MaxHeaderLines == 10

HeaderOk(pos, hoys_arg) ==
    [status |-> "ok", what |-> "none", pos |-> pos, hoys |-> hoys_arg]
HeaderFailed(exc, what) ==
    [status |-> exc, what |-> what, pos |-> 0, hoys |-> NoHoys]

\* start_line == 0: the counts of the header are read for the first grid of
\* a file only
CheckedHeader(start_line) == start_line = 0

\* the loop of parse_header, reading the line at position pos as its i-th
\* line; pos - 1 lines of the file were read before
RECURSIVE ParseHeaderFrom(_, _, _, _, _, _, _)
ParseHeaderFrom(lines, pos, i, start_line, hoys_arg, check_point_count, npoints) ==
    IF i >= MaxHeaderLines THEN HeaderOk(pos, hoys_arg)
    ELSE IF pos > Len(lines) THEN HeaderFailed("StopIteration", "end of file")
    ELSE LET line == lines[pos]
         IN  IF line.kind = "FORMAT"
             THEN IF pos + 1 > Len(lines)
                  THEN HeaderFailed("StopIteration", "end of file")
                  ELSE HeaderOk(pos + 2, hoys_arg)
             ELSE IF CheckedHeader(start_line) /\ line.kind = "NROWS"
             THEN IF check_point_count /\ npoints # line.n
                  THEN HeaderFailed("AssertionError", "rows")
                  ELSE ParseHeaderFrom(lines, pos + 1, i + 1, start_line,
                                       hoys_arg, check_point_count, npoints)
             ELSE IF CheckedHeader(start_line) /\ line.kind = "NCOLS"
             THEN IF HoysTruthy(hoys_arg)
                  THEN IF line.n # Len(hoys_arg.hs)
                       THEN HeaderFailed("AssertionError", "columns")
                       ELSE ParseHeaderFrom(lines, pos + 1, i + 1, start_line,
                                hoys_arg, check_point_count, npoints)
                  ELSE ParseHeaderFrom(lines, pos + 1, i + 1, start_line,
                           HoursRange(line.n), check_point_count, npoints)
             ELSE ParseHeaderFrom(lines, pos + 1, i + 1, start_line,
                                  hoys_arg, check_point_count, npoints)

\* parse_header(inf, start_line, hoys, check_point_count) on a file just
\* opened, for a grid of npoints sensors
ParseHeader(lines, start_line, hoys_arg, check_point_count, npoints) ==
    ParseHeaderFrom(lines, 1, 0, start_line, hoys_arg, check_point_count,
                    npoints)

\* the callers of parse_header and the check_point_count each passes:
\* set_values_from_file passes its own argument (default True),
\* load_values_from_files and the streaming metrics pass False
HeaderCallers ==
    {[caller |-> "set_values_from_file", check_point_count |-> TRUE],
     [caller |-> "set_values_from_file", check_point_count |-> FALSE],
     [caller |-> "load_values_from_files", check_point_count |-> FALSE],
     [caller |-> "annual_metrics", check_point_count |-> FALSE]}

GetParseHeader ==
    /\ inp.fn = "parse_header"
    /\ res = Idle
    /\ res' = [op |-> "parse_header",
               out |-> ParseHeader(inp.lines, inp.start_line, inp.hoys,
                          inp.by.check_point_count, inp.npoints)]
    /\ UNCHANGED <<gridVars, sources, hoys, values, isDirectLoaded, written, nops, inp>>

\* the counts a header declares: none, or a number around the grid's
HeaderCounts == {None} \cup (1..MaxHours)

\* the files a header is parsed from: NROWS and NCOLS lines as declared,
\* the FORMAT line and the empty line, then two rows
HeaderFile(nrows, ncols) ==
    (IF nrows = None THEN <<>> ELSE <<HeaderLine("NROWS", nrows)>>)
    \o (IF ncols = None THEN <<>> ELSE <<HeaderLine("NCOLS", ncols)>>)
    \o <<HeaderLine("FORMAT", None), HeaderLine("blank", None)>>
    \o <<RowLine(<<1, 2>>), RowLine(<<3, 4>>)>>

HeaderHoysArgs == {NoHoys, HoysOf(<<>>), HoysOf(<<5, 6>>)}

HeaderPoints == 2

InitHeader ==
    /\ sources = <<1>>
    /\ hoys = <<>>
    /\ values = <<>>
    /\ isDirectLoaded = FALSE
    /\ written = <<>>
    /\ nops = 0
    /\ \E nrows \in HeaderCounts, ncols \in HeaderCounts :
          inp \in [fn : {"parse_header"}, lines : {HeaderFile(nrows, ncols)},
                   start_line : {0, 1}, hoys : HeaderHoysArgs,
                   by : HeaderCallers, npoints : {HeaderPoints}]
    /\ res = Idle
    /\ NoGrid

NextHeader == GetParseHeader

SpecHeader == InitHeader /\ [][NextHeader]_vars

\* the count a header line of the given kind declares, None when the file
\* has no such line
Declared(lines, kind) ==
    IF \E i \in 1..Len(lines) : lines[i].kind = kind
    THEN lines[CHOOSE i \in 1..Len(lines) : lines[i].kind = kind].n
    ELSE None

\* C16 (as claimed): a header whose NROWS differs from the number of
\* sensors makes the parse fail with the row-count error, for every caller
\* of parse_header and every start line.
C16_RowMismatchRaises ==
    (res # Idle /\ res.op = "parse_header"
       /\ Declared(inp.lines, "NROWS") # None
       /\ Declared(inp.lines, "NROWS") # inp.npoints)
    => (res.out.status = "AssertionError" /\ res.out.what = "rows")

\* the part that holds: the first grid of a file, the check requested
C16_RaisesWhenChecked ==
    (res # Idle /\ res.op = "parse_header"
       /\ Declared(inp.lines, "NROWS") # None
       /\ Declared(inp.lines, "NROWS") # inp.npoints
       /\ inp.start_line = 0 /\ inp.by.check_point_count)
    => (res.out.status = "AssertionError" /\ res.out.what = "rows")

\* C17 (as claimed): with an hour list supplied, a header whose NCOLS
\* differs from the length of the list makes the parse fail with the
\* column-count error, for every start line; with no hour list the hours
\* become 0..NCOLS-1.
C17_ColumnMismatchRaises ==
    (res # Idle /\ res.op = "parse_header"
       /\ Declared(inp.lines, "NCOLS") # None
       /\ res.out.what # "rows")
    => IF inp.hoys.given
       THEN (Declared(inp.lines, "NCOLS") # Len(inp.hoys.hs))
            => (res.out.status = "AssertionError"
                /\ res.out.what = "columns")
       ELSE /\ res.out.status = "ok"
            /\ res.out.hoys = HoursRange(Declared(inp.lines, "NCOLS"))

\* the part that holds: the first grid of a file, a non-empty hour list
C17_RaisesAtStartZero ==
    (res # Idle /\ res.op = "parse_header"
       /\ Declared(inp.lines, "NCOLS") # None
       /\ res.out.what # "rows"
       /\ inp.start_line = 0)
    => IF HoysTruthy(inp.hoys)
       THEN (Declared(inp.lines, "NCOLS") # Len(inp.hoys.hs))
            => (res.out.status = "AssertionError"
                /\ res.out.what = "columns")
       ELSE /\ res.out.status = "ok"
            /\ res.out.hoys = HoursRange(Declared(inp.lines, "NCOLS"))

----------------------------------------------------------------------------
(* A grid: its sensors, its result-file descriptors, and ingestion *)

\* the hours a sensor of a grid can hold a value for
GridHours == 0..(MaxHours + 1)

\* a sensor of a grid: its _values and its _is_directLoaded
Point(vals, loaded) == [values |-> vals, loaded |-> loaded]

\* ap._values = []
NoValues == <<>>

\* a sensor as the grid gets it: nothing stored, no direct value loaded
EmptyPoint == Point(NoValues, FALSE)

\* the place holders of the grid's one source in its one state, created by
\* _create_data_structure when the sensor holds none
Structure(vals) == IF vals = NoValues THEN EmptyStore(<<1>>, GridHours) ELSE vals

\* whether the sensor holds a value for some hour
PointHasValues(p) ==
    /\ p.values # NoValues
    /\ \E h \in GridHours : p.values[1][1][h].kind # "absent"

\* has_values of the grid: values are resident in its sensors
HasValues(pts) == \E i \in 1..Len(pts) : PointHasValues(pts[i])

\* has_direct_values of the grid: direct values are resident in its sensors
GridHasDirectValues(pts) ==
    \E i \in 1..Len(pts) : PointHasValues(pts[i]) /\ pts[i].loaded

\* an element of _totalFiles / _directFiles
Descriptor(path, hoys_arg, start_line, header, mode) ==
    [path |-> path, hoys |-> hoys_arg, start_line |-> start_line,
     header |-> header, mode |-> mode]

\* add_result_files(file_path, hoys, start_line, is_direct, header, mode):
\* the descriptor is registered with the files of its channel
AddResultFiles(files, path, hoys_arg, start_line, header, mode) ==
    Append(files, Descriptor(path, hoys_arg, start_line, header, mode))

\* a token of a row that is no number
Malformed == -2

\* int(float(r)) for mode 0, 1 if float(r) > 0 else 0 for mode 1,
\* int(float(r) / mode) otherwise
Convert(r, mode) ==
    IF mode = 0 THEN r
    ELSE IF mode = 1 THEN (IF r > 0 THEN 1 ELSE 0)
    ELSE r \div mode

RowOk(vals) == [status |-> "ok", vals |-> vals]
RowFailed(exc) == [status |-> exc, vals |-> <<>>]

\* tuple(... for r in inf.next().split()) on the line at position pos: the
\* end of the file stops the iteration, a token that is no number raises
ParseRow(lines, pos, mode) ==
    IF pos > Len(lines) THEN RowFailed("StopIteration")
    ELSE LET line == lines[pos]
         IN  IF line.kind = "blank" THEN RowOk(<<>>)
             ELSE IF line.kind # "row" THEN RowFailed("ValueError")
             ELSE IF \E i \in 1..Len(line.vals) : line.vals[i] = Malformed
             THEN RowFailed("ValueError")
             ELSE RowOk([i \in 1..Len(line.vals) |->
                            Convert(line.vals[i], mode)])

PointOk(p) == [status |-> "ok", point |-> p]
PointFailed(exc, p) == [status |-> exc, point |-> p]

\* the loop of set_values over izip(hoys, values) from position i on: a
\* coupled entry does not take an item, and what was set before stays
RECURSIVE SetValuesFrom(_, _, _, _, _)
SetValuesFrom(p, vs, hs, ind, i) ==
    IF i > Len(hs) THEN PointOk(p)
    ELSE LET e == p.values[1][1][hs[i]]
         IN  IF e.kind = "tuple" THEN PointFailed("ValueError", p)
             ELSE SetValuesFrom(
                      Point(Put(p.values, 0, 0, hs[i], SetItem(e, ind, vs[i])),
                            p.loaded),
                      vs, hs, ind, i + 1)

\* set_values(values, hoys, source, state, is_direct) of a sensor
SetValues(p, vs, hoys_arg, is_direct) ==
    IF ~hoys_arg.given THEN PointFailed("TypeError", p)
    ELSE IF Len(vs) # Len(hoys_arg.hs) THEN PointFailed("AssertionError", p)
    ELSE SetValuesFrom(Point(Structure(p.values), p.loaded \/ is_direct),
                       vs, hoys_arg.hs, IF is_direct THEN 1 ELSE 0, 1)

\* the loop of set_coupled_values over izip(hoys, values)
RECURSIVE SetCoupledValuesFrom(_, _, _, _, _)
SetCoupledValuesFrom(vals, ts, ds, hs, i) ==
    IF i > Len(hs) THEN vals
    ELSE SetCoupledValuesFrom(
             Put(vals, 0, 0, hs[i], CoupledEntry(ts[i], ds[i])),
             ts, ds, hs, i + 1)

\* set_coupled_values(values, hoys, source, state) of a sensor, the values
\* being the pairs of ts and ds
SetCoupledValues(p, ts, ds, hoys_arg) ==
    IF ~hoys_arg.given THEN PointFailed("TypeError", p)
    ELSE IF Min(Len(ts), Len(ds)) # Len(hoys_arg.hs)
    THEN PointFailed("AssertionError", p)
    ELSE PointOk(Point(SetCoupledValuesFrom(Structure(p.values), ts, ds,
                                            hoys_arg.hs, 1), TRUE))

\* the outcome of a grid operation: its exception if any, and the grid
GridResult(status, pts, tf, df) ==
    [status |-> status, points |-> pts, totalFiles |-> tf, directFiles |-> df]

\* the loop that assigns the rows to the sensors, from sensor count + 1 and
\* line pos on: the rows come from a generator, so the end of the file ends
\* the loop without an error
RECURSIVE AssignRows(_, _, _, _, _, _, _, _, _)
AssignRows(pts, tf, df, lines, pos, count, hoys_arg, is_direct, mode) ==
    IF count >= Len(pts) THEN GridResult("ok", pts, tf, df)
    ELSE LET row == ParseRow(lines, pos, mode)
         IN  IF row.status = "StopIteration" THEN GridResult("ok", pts, tf, df)
             ELSE IF row.status # "ok" THEN GridResult(row.status, pts, tf, df)
             ELSE LET set == SetValues(pts[count + 1], row.vals, hoys_arg,
                                       is_direct)
                      pts2 == [pts EXCEPT ![count + 1] = set.point]
                  IN  IF set.status # "ok"
                      THEN GridResult(set.status, pts2, tf, df)
                      ELSE AssignRows(pts2, tf, df, lines, pos + 1, count + 1,
                                      hoys_arg, is_direct, mode)

\* set_values_from_file(file_path, hoys, source, state, start_line,
\* is_direct, header, check_point_count, mode); the exception for an empty
\* file is a name the module does not define
SetValuesFromFile(pts, tf, df, dsk, path, hoys_arg, start_line, is_direct, header, check_point_count, mode) ==
    LET lines == dsk[path]
        st == IF start_line = None THEN 0 ELSE start_line
        ph == IF header
              THEN ParseHeader(lines, st, hoys_arg, check_point_count, Len(pts))
              ELSE HeaderOk(1, hoys_arg)
        tf2 == IF is_direct THEN tf
               ELSE AddResultFiles(tf, path, ph.hoys, st, header, mode)
        df2 == IF is_direct
               THEN AddResultFiles(df, path, ph.hoys, st, header, mode)
               ELSE df
    IN  IF Len(lines) = 0 THEN GridResult("NameError", pts, tf, df)
        ELSE IF ph.status # "ok" THEN GridResult(ph.status, pts, tf, df)
        ELSE IF ph.pos + st > Len(lines) + 1
        THEN GridResult("StopIteration", pts, tf2, df2)
        ELSE AssignRows(pts, tf2, df2, lines, ph.pos + st, 0, ph.hoys,
                        is_direct, mode)

\* the loop that assigns the coupled rows to the sensors
RECURSIVE AssignCoupledRows(_, _, _, _, _, _, _, _, _, _)
AssignCoupledRows(pts, tf, df, lines, dlines, pos, dpos, count, hoys_arg, mode) ==
    IF count >= Len(pts) THEN GridResult("ok", pts, tf, df)
    ELSE LET row == ParseRow(lines, pos, mode)
             drow == ParseRow(dlines, dpos, mode)
         IN  IF row.status = "StopIteration" THEN GridResult("ok", pts, tf, df)
             ELSE IF row.status # "ok" THEN GridResult(row.status, pts, tf, df)
             ELSE IF drow.status = "StopIteration"
             THEN GridResult("ok", pts, tf, df)
             ELSE IF drow.status # "ok"
             THEN GridResult(drow.status, pts, tf, df)
             ELSE LET set == SetCoupledValues(pts[count + 1], row.vals,
                                              drow.vals, hoys_arg)
                      pts2 == [pts EXCEPT ![count + 1] = set.point]
                  IN  IF set.status # "ok"
                      THEN GridResult(set.status, pts2, tf, df)
                      ELSE AssignCoupledRows(pts2, tf, df, lines, dlines,
                               pos + 1, dpos + 1, count + 1, hoys_arg, mode)

\* set_coupled_values_from_file(total_file_path, direct_file_path, hoys,
\* source, state, start_line, header, check_point_count, mode)
SetCoupledValuesFromFile(pts, tf, df, dsk, total_file_path, direct_file_path, hoys_arg, start_line, header, check_point_count, mode) ==
    LET lines == dsk[total_file_path]
        dlines == dsk[direct_file_path]
        st == IF start_line = None THEN 0 ELSE start_line
        ph == IF header
              THEN ParseHeader(lines, st, hoys_arg, check_point_count, Len(pts))
              ELSE HeaderOk(1, hoys_arg)
        dph == IF header
               THEN ParseHeader(dlines, st, ph.hoys, check_point_count,
                                Len(pts))
               ELSE HeaderOk(1, hoys_arg)
        tf2 == AddResultFiles(tf, total_file_path, dph.hoys, st, header, mode)
        df2 == AddResultFiles(df, direct_file_path, dph.hoys, st, header, mode)
    IN  IF Len(lines) = 0 \/ Len(dlines) = 0
        THEN GridResult("NameError", pts, tf, df)
        ELSE IF ph.status # "ok" THEN GridResult(ph.status, pts, tf, df)
        ELSE IF dph.status # "ok" THEN GridResult(dph.status, pts, tf, df)
        ELSE IF ph.pos + st > Len(lines) + 1 \/ dph.pos + st > Len(dlines) + 1
        THEN GridResult("StopIteration", pts, tf2, df2)
        ELSE AssignCoupledRows(pts, tf2, df2, lines, dlines, ph.pos + st,
                               dph.pos + st, 0, dph.hoys, mode)

\* for ap in self._analysis_points: ap._values = []
Cleared(pts) == [i \in 1..Len(pts) |-> Point(NoValues, pts[i].loaded)]

\* the loop of load_values_from_files over izip(r_files, d_files); the
\* hours, start line, header flag and mode are those of the direct file
RECURSIVE LoadCoupled(_, _, _, _, _, _, _)
LoadCoupled(pts, tf, df, dsk, r_files, d_files, i) ==
    IF i > Len(r_files) \/ i > Len(d_files) THEN GridResult("ok", pts, tf, df)
    ELSE LET one == SetCoupledValuesFromFile(pts, tf, df, dsk,
                        r_files[i].path, d_files[i].path, d_files[i].hoys,
                        d_files[i].start_line, d_files[i].header, FALSE,
                        d_files[i].mode)
         IN  IF one.status # "ok" THEN one
             ELSE LoadCoupled(one.points, one.totalFiles, one.directFiles,
                              dsk, r_files, d_files, i + 1)

\* load_values_from_files(): the values and the descriptors are removed
\* first; with files of one channel only, set_values_from_file is handed
\* the descriptor itself for a path, which os.path.getsize refuses
LoadValuesFromFiles(pts, tf, df, dsk) ==
    LET r_files == tf
        d_files == df
    IN  IF r_files # <<>> /\ d_files # <<>>
        THEN LoadCoupled(Cleared(pts), <<>>, <<>>, dsk, r_files, d_files, 1)
        ELSE IF r_files # <<>> \/ d_files # <<>>
        THEN GridResult("TypeError", Cleared(pts), <<>>, <<>>)
        ELSE GridResult("ok", Cleared(pts), <<>>, <<>>)

\* unload(): the descriptors and the values of every sensor are removed
Unload(pts, tf, df) == GridResult("ok", Cleared(pts), <<>>, <<>>)

----------------------------------------------------------------------------
(* The metrics of a grid: from resident values, or row by row from a file *)

\* the hours of the grid: those the first sensor holds a value for, ascending
RECURSIVE SortedSeq(_)
SortedSeq(S) ==
    IF S = {} THEN <<>>
    ELSE LET m == CHOOSE x \in S : \A y \in S : x <= y
         IN  <<m>> \o SortedSeq(S \ {m})

GridHoys(pts) ==
    IF pts = <<>> \/ pts[1].values = NoValues THEN <<>>
    ELSE SortedSeq({h \in GridHours : pts[1].values[1][1][h].kind # "absent"})

\* the names analysisresult.py imports: SqliteDB, GridIsNotAssignedError,
\* NoDirectValueError, Schedule, EmptyFileError; os and izip are not among
\* them, so a statement that uses one of the two raises NameError
ImportedNames ==
    {"SqliteDB", "GridIsNotAssignedError", "NoDirectValueError", "Schedule",
     "EmptyFileError"}
Defined(name) == name \in ImportedNames

DefaultGridUdiMin == 100
DefaultGridUdiMax == 3000
DefaultTargetDa == 50
DefaultTargetArea == 10

GridFailed(exc) == [status |-> exc, per |-> <<>>]
GridOk(per) == [status |-> "ok", per |-> per]

\* the arguments of a grid metric, with the defaults the grid applies
\* before it calls the sensors or reads the file
MetricArgs(da_threshhold, udi_min_max, threshhold, target_hours, occ_schedule, workday) ==
    [da_threshhold |-> da_threshhold, udi_min_max |-> udi_min_max,
     threshhold |-> threshhold, target_hours |-> target_hours,
     occ_schedule |-> occ_schedule, workday |-> workday]

\* the metric of one sensor from its resident values
SensorMetric(kind, p, gridHoys, a) ==
    IF kind = "annual_metrics"
    THEN AnnualMetrics(p.values, p.loaded, <<1>>, gridHoys, a.da_threshhold,
                       a.udi_min_max, <<>>, a.occ_schedule, a.workday)
    ELSE IF kind = "spatial_daylight_autonomy"
    THEN DaylightAutonomy(p.values, p.loaded, <<1>>, gridHoys,
                          a.da_threshhold, <<>>, a.occ_schedule)
    ELSE AnnualSolarExposure(p.values, p.loaded, <<1>>, gridHoys,
                             a.threshhold, <<>>, a.occ_schedule,
                             a.target_hours)

\* res[c].append(r): the result of a sensor goes in front of the results of
\* the sensors after it; an exception of either ends the call
Collect(one, rest) ==
    IF one.status # "ok" THEN GridFailed(one.status)
    ELSE IF rest.status # "ok" THEN rest
    ELSE GridOk(<<one>> \o rest.per)

\* for sensor in self.analysis_points: res[c].append(r)
RECURSIVE FromSensors(_, _, _, _, _)
FromSensors(kind, pts, gridHoys, a, i) ==
    IF i > Len(pts) THEN GridOk(<<>>)
    ELSE Collect(SensorMetric(kind, pts[i], gridHoys, a),
                 FromSensors(kind, pts, gridHoys, a, i + 1))

\* the values of a row as the reduction consumes them: izip(hours, values)
\* converts the first Len(hs) tokens only
StreamRow(line, hs) ==
    LET n == Min(Len(hs), Len(line.vals))
    IN  IF line.kind = "blank" THEN RowOk(<<>>)
        ELSE IF line.kind # "row" THEN RowFailed("ValueError")
        ELSE IF \E i \in 1..n : line.vals[i] = Malformed
        THEN RowFailed("ValueError")
        ELSE RowOk([i \in 1..n |-> line.vals[i]])

\* the metric of one sensor from its row of the file
RowMetric(kind, vs, hs, a) ==
    IF kind = "annual_metrics"
    THEN CalculateAnnualMetrics(vs, hs, a.da_threshhold, a.udi_min_max,
                                a.occ_schedule, a.workday)
    ELSE IF kind = "spatial_daylight_autonomy"
    THEN CalculateDaylightAutonomy(vs, hs, a.da_threshhold, a.occ_schedule)
    ELSE CalculateAnnualSolarExposure(vs, hs, a.threshhold, a.occ_schedule,
                                      a.target_hours)

\* the metric of the sensor whose row was read, or the exception of the row
ReduceRow(kind, row, hs, a) ==
    IF row.status # "ok" THEN GridFailed(row.status)
    ELSE RowMetric(kind, row.vals, hs, a)

\* for count in xrange(end): one line of the file per sensor
RECURSIVE FromRows(_, _, _, _, _, _, _)
FromRows(kind, npoints, lines, pos, hoys_arg, a, count) ==
    IF count >= npoints THEN GridOk(<<>>)
    ELSE IF pos > Len(lines) THEN GridFailed("StopIteration")
    ELSE IF ~hoys_arg.given THEN GridFailed("TypeError")
    ELSE Collect(ReduceRow(kind, StreamRow(lines[pos], hoys_arg.hs),
                           hoys_arg.hs, a),
                 FromRows(kind, npoints, lines, pos + 1, hoys_arg, a,
                          count + 1))

\* the rows of the file after its header was parsed
AfterHeader(kind, npoints, lines, st, ph, hoys_arg, a) ==
    IF ph.status # "ok" THEN GridFailed(ph.status)
    ELSE IF ph.pos + st > Len(lines) + 1 THEN GridFailed("StopIteration")
    ELSE FromRows(kind, npoints, lines, ph.pos + st, hoys_arg, a, 0)

\* the body of the loop over the result files, after os.path.getsize: the
\* file is read line by line and reduced sensor by sensor
FromFile(kind, npoints, dsk, file_data, a) ==
    IF Len(dsk[file_data.path]) = 0 THEN GridFailed("EmptyFileError")
    ELSE IF file_data.mode # 0 THEN GridFailed("AssertionError")
    ELSE AfterHeader(kind, npoints, dsk[file_data.path], file_data.start_line,
             IF file_data.header
             THEN ParseHeader(dsk[file_data.path], file_data.start_line,
                              file_data.hoys, FALSE, npoints)
             ELSE HeaderOk(1, file_data.hoys),
             file_data.hoys, a)

\* the streaming branch: os.path.getsize is the first statement of the loop
FromFiles(kind, npoints, dsk, files, a) ==
    IF files = <<>> THEN GridOk(<<>>)
    ELSE IF ~Defined("os") THEN GridFailed("NameError")
    ELSE FromFile(kind, npoints, dsk, files[1], a)

\* the part the three grid metrics share: which path is taken, and the
\* per-sensor results in sensor order; the streaming branch takes the
\* reducer from self.analysis_points[0] before it opens a file
PerSensor(kind, pts, files, dsk, resident, a) ==
    IF ~resident /\ files = <<>> THEN GridFailed("ValueError")
    ELSE IF ~resident /\ Len(files) # 1 THEN GridFailed("AssertionError")
    ELSE IF ~resident /\ Len(pts) = 0 THEN GridFailed("IndexError")
    ELSE IF resident THEN FromSensors(kind, pts, GridHoys(pts), a, 1)
    ELSE FromFiles(kind, Len(pts), dsk, files, a)

\* x or default, for a number
OrDefault(x, default) == IF x = None \/ x = 0 THEN default ELSE x

\* occ_schedule or Schedule.from_workday_hours()
OrWorkday(occ_schedule, workday) ==
    IF occ_schedule.given /\ occ_schedule.hours # {} THEN occ_schedule
    ELSE ScheduleOf(workday)

\* annual_metrics(da_threshhold, udi_min_max, blinds_state_ids,
\* occ_schedule) of the grid
GridAnnualMetrics(pts, tf, dsk, da_threshhold, udi_min_max, occ_schedule, workday) ==
    PerSensor("annual_metrics", pts, tf, dsk, HasValues(pts),
        MetricArgs(OrDefault(da_threshhold, DefaultDaThreshold),
                   IF udi_min_max = <<>>
                   THEN <<DefaultGridUdiMin, DefaultGridUdiMax>>
                   ELSE udi_min_max,
                   None, None, OrWorkday(occ_schedule, workday), workday))

\* (1 - len(problematic_points) / len(self.analysis_points)) * 100, 0 on a
\* ZeroDivisionError; the module has no true division, so the quotient of
\* the two lengths is rounded down
SdaOf(k, n) == IF n = 0 THEN 0 ELSE (1 - (k \div n)) * 100

SdaFailed(exc) ==
    [status |-> exc, sda |-> None, daylight_autonomy |-> <<>>,
     problematic_points |-> <<>>]

\* the end of spatial_daylight_autonomy: the sensors below the target, named
\* by their position, and the share of the others
SdaSummary(per, npoints, target) ==
    LET das == [i \in 1..Len(per.per) |-> per.per[i].DA]
        IsProblematic(i) == i <= Len(das) /\ das[i][1] < target * das[i][2]
        problematic == SelectSeq([i \in 1..npoints |-> i], IsProblematic)
    IN  IF per.status # "ok" THEN SdaFailed(per.status)
        ELSE IF ~Defined("izip") THEN SdaFailed("NameError")
        ELSE [status |-> "ok",
              sda |-> SdaOf(Len(problematic), npoints),
              daylight_autonomy |-> das,
              problematic_points |-> problematic]

\* spatial_daylight_autonomy(da_threshhold, target_da, blinds_state_ids,
\* occ_schedule) of the grid
GridSpatialDaylightAutonomy(pts, tf, dsk, da_threshhold, target_da, occ_schedule, workday) ==
    SdaSummary(PerSensor("spatial_daylight_autonomy", pts, tf, dsk,
                   HasValues(pts),
                   MetricArgs(OrDefault(da_threshhold, DefaultDaThreshold),
                              <<>>, None, None,
                              OrWorkday(occ_schedule, workday), workday)),
               Len(pts), OrDefault(target_da, DefaultTargetDa))

AseFailedGrid(exc) ==
    [status |-> exc, success |-> FALSE, ase_values |-> <<>>,
     per_problematic |-> None, problematic_points |-> <<>>,
     problematic_hours |-> <<>>]

\* the end of annual_solar_exposure: the sensors that fail, named by their
\* position, their share of the grid, and their hours
AseSummary(per, npoints, target_area) ==
    LET Fails(i) == i <= Len(per.per) /\ ~per.per[i].success
        problematic == SelectSeq([i \in 1..npoints |-> i], Fails)
    IN  IF per.status # "ok" THEN AseFailedGrid(per.status)
        ELSE IF ~Defined("izip") THEN AseFailedGrid("NameError")
        ELSE IF npoints = 0 THEN AseFailedGrid("ZeroDivisionError")
        ELSE [status |-> "ok",
              success |-> (100 * Len(problematic)) \div npoints < target_area,
              ase_values |-> [i \in 1..Len(per.per) |-> per.per[i].ase],
              per_problematic |-> (100 * Len(problematic)) \div npoints,
              problematic_points |-> problematic,
              problematic_hours |->
                  [i \in 1..Len(problematic) |->
                      per.per[problematic[i]].problematic_hours]]

\* occ_schedule or set(hoys)
OrAllHours(occ_schedule, hs) ==
    IF occ_schedule.given /\ occ_schedule.hours # {} THEN occ_schedule
    ELSE ScheduleOf(HourSet(hs))

\* annual_solar_exposure(threshhold, blinds_state_ids, occ_schedule,
\* target_hours, target_area) of the grid
GridAnnualSolarExposure(pts, df, dsk, threshhold, occ_schedule, target_hours, target_area) ==
    AseSummary(PerSensor("annual_solar_exposure", pts, df, dsk,
                   GridHasDirectValues(pts),
                   MetricArgs(None, <<>>,
                              OrDefault(threshhold, DefaultAseThreshold),
                              OrDefault(target_hours, DefaultTargetHours),
                              OrAllHours(occ_schedule, GridHoys(pts)), {})),
               Len(pts), OrDefault(target_area, DefaultTargetArea))

----------------------------------------------------------------------------
(* The grid metrics specification: one matrix, resident or file-backed *)

MaxSensors == 2

\* the file of a matrix: NROWS, NCOLS, the FORMAT line, the empty line, and
\* one row per sensor
MatrixFile(rows, ncols) ==
    <<HeaderLine("NROWS", Len(rows)), HeaderLine("NCOLS", ncols),
      HeaderLine("FORMAT", None), HeaderLine("blank", None)>>
    \o [i \in 1..Len(rows) |-> RowLine(rows[i])]

\* n sensors as the grid gets them
FreshPoints(n) == [i \in 1..n |-> EmptyPoint]

\* the rows of the matrices: two hours, totals below and on the daylight
\* threshold, directs below and above the exposure threshold
TotalRows == {<<100, 100>>, <<100, 300>>, <<300, 300>>}
DirectRows == {<<0, 0>>, <<2000, 0>>}

\* per-sensor totals over five hours whose daylight autonomies are 80, 40,
\* 60 and 20
ExampleRows ==
    <<(<<300, 300, 300, 300, 100>>), (<<300, 300, 100, 100, 100>>),
      (<<300, 300, 300, 100, 100>>), (<<300, 100, 100, 100, 100>>)>>

GridCalls ==
    [fn : {"annual_metrics"}, da_threshhold : {None},
     udi_min_max : {<<>>, <<100, 300>>},
     occ_schedule : {NoSchedule, ScheduleOf({0})}, workday : {GridHours}]
    \cup [fn : {"spatial_daylight_autonomy"}, da_threshhold : {None},
          target_da : {None, 100},
          occ_schedule : {NoSchedule, ScheduleOf({0})}, workday : {GridHours}]
    \cup [fn : {"annual_solar_exposure"}, threshhold : {None},
          occ_schedule : {NoSchedule, ScheduleOf({0})},
          target_hours : {None, 1}, target_area : {None}]

\* the grid of a matrix after set_coupled_values_from_file read its two
\* files (resident), or with the two files registered and nothing read
\* (file-backed)
InitGridMetrics ==
    /\ sources = <<1>>
    /\ hoys = <<>>
    /\ values = <<>>
    /\ isDirectLoaded = FALSE
    /\ written = <<>>
    /\ nops = 0
    /\ res = Idle
    /\ grids = <<>>
    /\ \E n \in 0..MaxSensors, example \in BOOLEAN :
       \E tot \in IF example THEN {ExampleRows} ELSE [1..n -> TotalRows],
          dir \in IF example THEN {[i \in 1..4 |-> <<0, 0, 0, 0, 0>>]}
                  ELSE [1..n -> DirectRows] :
          /\ example => n = 0
          /\ disk = [path \in {"total", "direct"} |->
                        IF path = "total"
                        THEN MatrixFile(tot, IF example THEN 5 ELSE 2)
                        ELSE MatrixFile(dir, IF example THEN 5 ELSE 2)]
          /\ LET read == SetCoupledValuesFromFile(FreshPoints(Len(tot)),
                             <<>>, <<>>, disk, "total", "direct", NoHoys,
                             None, TRUE, TRUE, 0)
             IN  /\ totalFiles = read.totalFiles
                 /\ directFiles = read.directFiles
                 /\ \E resident \in BOOLEAN :
                       /\ points = IF resident THEN read.points
                                   ELSE FreshPoints(Len(tot))
                       /\ \E call \in GridCalls :
                             inp = [call |-> call,
                                    twin |-> IF resident
                                             THEN FreshPoints(Len(tot))
                                             ELSE read.points]

\* the metric of the call on a grid of the sensors pts
GridMetricOf(call, pts) ==
    IF call.fn = "annual_metrics"
    THEN GridAnnualMetrics(pts, totalFiles, disk, call.da_threshhold,
                           call.udi_min_max, call.occ_schedule, call.workday)
    ELSE IF call.fn = "spatial_daylight_autonomy"
    THEN GridSpatialDaylightAutonomy(pts, totalFiles, disk,
             call.da_threshhold, call.target_da, call.occ_schedule,
             call.workday)
    ELSE GridAnnualSolarExposure(pts, directFiles, disk, call.threshhold,
             call.occ_schedule, call.target_hours, call.target_area)

GetGridAnnualMetrics ==
    /\ res = Idle
    /\ inp.call.fn = "annual_metrics"
    /\ res' = [op |-> "annual_metrics",
               out |-> GridAnnualMetrics(points, totalFiles, disk,
                           inp.call.da_threshhold, inp.call.udi_min_max,
                           inp.call.occ_schedule, inp.call.workday)]
    /\ UNCHANGED <<gridVars, sources, hoys, values, isDirectLoaded, written, nops, inp>>

GetGridSpatialDaylightAutonomy ==
    /\ res = Idle
    /\ inp.call.fn = "spatial_daylight_autonomy"
    /\ res' = [op |-> "spatial_daylight_autonomy",
               out |-> GridSpatialDaylightAutonomy(points, totalFiles, disk,
                           inp.call.da_threshhold, inp.call.target_da,
                           inp.call.occ_schedule, inp.call.workday)]
    /\ UNCHANGED <<gridVars, sources, hoys, values, isDirectLoaded, written, nops, inp>>

GetGridAnnualSolarExposure ==
    /\ res = Idle
    /\ inp.call.fn = "annual_solar_exposure"
    /\ res' = [op |-> "annual_solar_exposure",
               out |-> GridAnnualSolarExposure(points, directFiles, disk,
                           inp.call.threshhold, inp.call.occ_schedule,
                           inp.call.target_hours, inp.call.target_area)]
    /\ UNCHANGED <<gridVars, sources, hoys, values, isDirectLoaded, written, nops, inp>>

NextGridMetrics ==
    \/ GetGridAnnualMetrics
    \/ GetGridSpatialDaylightAutonomy
    \/ GetGridAnnualSolarExposure

SpecGridMetrics == InitGridMetrics /\ [][NextGridMetrics]_vars

----------------------------------------------------------------------------
(* The grid specification: files are ingested, reloaded and unloaded *)

MaxGridOps == 3
GridSensors == 2

\* the rows of a matrix of n sensors: the first sensor below the daylight
\* threshold in its first hour, the others on it
TotalMatrix(n) == [i \in 1..n |-> IF i = 1 THEN <<100, 300>> ELSE <<300, 300>>]
DirectMatrix(n) == [i \in 1..n |-> IF i = 1 THEN <<0, 2000>> ELSE <<0, 0>>]

\* the files on disk: two well-formed matrices, a matrix of one row less
\* than the grid has sensors, a matrix that announces all rows and ends one
\* row early, a matrix whose last row holds a token that is no number, and
\* an empty file
GridDisk ==
    [path \in {"total", "direct", "mismatch", "short", "bad", "empty"} |->
        IF path = "total" THEN MatrixFile(TotalMatrix(GridSensors), 2)
        ELSE IF path = "direct" THEN MatrixFile(DirectMatrix(GridSensors), 2)
        ELSE IF path = "mismatch"
        THEN MatrixFile([i \in 1..(GridSensors - 1) |-> <<200, 200>>], 2)
        ELSE IF path = "short"
        THEN <<HeaderLine("NROWS", GridSensors), HeaderLine("NCOLS", 2),
               HeaderLine("FORMAT", None), HeaderLine("blank", None)>>
             \o [i \in 1..(GridSensors - 1) |-> RowLine(<<200, 200>>)]
        ELSE IF path = "bad"
        THEN MatrixFile([i \in 1..GridSensors |->
                            IF i = GridSensors THEN <<200, Malformed>>
                            ELSE <<200, 200>>], 2)
        ELSE <<>>]

\* the files whose ingestion the grid has to refuse
Defective(path) == path \in {"mismatch", "short", "bad", "empty"}

\* the grid as an operation found it
Before == [points |-> points, totalFiles |-> totalFiles, directFiles |-> directFiles]

\* the outcome of an operation on the grid, and the grid it started from
Outcome(op, paths, status) ==
    [op |-> op, paths |-> paths, status |-> status, before |-> Before]

InitGrid ==
    /\ sources = <<1>>
    /\ hoys = <<>>
    /\ values = <<>>
    /\ isDirectLoaded = FALSE
    /\ written = <<>>
    /\ nops = 0
    /\ inp = None
    /\ res = Idle
    /\ points = FreshPoints(GridSensors)
    /\ totalFiles = <<>>
    /\ directFiles = <<>>
    /\ disk = GridDisk
    /\ grids = <<>>

\* the grid after an operation that ended in the outcome r
Becomes(op, paths, r) ==
    /\ points' = r.points
    /\ totalFiles' = r.totalFiles
    /\ directFiles' = r.directFiles
    /\ res' = Outcome(op, paths, r.status)
    /\ nops' = nops + 1
    /\ UNCHANGED <<disk, grids, sources, hoys, values, isDirectLoaded, written, inp>>

\* grid.set_values_from_file(file_path, is_direct=...)
GridSetValuesFromFile ==
    /\ nops < MaxGridOps
    /\ \E path \in DOMAIN disk, is_direct \in BOOLEAN :
          Becomes("set_values_from_file", <<path>>,
              SetValuesFromFile(points, totalFiles, directFiles, disk, path,
                                NoHoys, None, is_direct, TRUE, TRUE, 0))

\* grid.set_coupled_values_from_file(total_file_path, direct_file_path)
GridSetCoupledValuesFromFile ==
    /\ nops < MaxGridOps
    /\ \E total_file_path \in {"total", "short", "bad"} :
          Becomes("set_coupled_values_from_file",
              <<total_file_path, "direct">>,
              SetCoupledValuesFromFile(points, totalFiles, directFiles, disk,
                  total_file_path, "direct", NoHoys, None, TRUE, TRUE, 0))

\* grid.load_values_from_files()
GridLoadValuesFromFiles ==
    /\ nops < MaxGridOps
    /\ Becomes("load_values_from_files",
           [i \in 1..Len(totalFiles) |-> totalFiles[i].path],
           LoadValuesFromFiles(points, totalFiles, directFiles, disk))

\* grid.unload()
GridUnload ==
    /\ nops < MaxGridOps
    /\ Becomes("unload", <<>>, Unload(points, totalFiles, directFiles))

\* sensor.set_values([v], [h], source, state, is_direct) on a sensor of the
\* grid
GridSetValues ==
    /\ nops < MaxGridOps
    /\ \E i \in 1..Len(points), h \in {0, 1}, is_direct \in BOOLEAN :
          LET set == SetValues(points[i], <<500>>, HoysOf(<<h>>), is_direct)
          IN  Becomes("set_values", <<>>,
                  GridResult(set.status, [points EXCEPT ![i] = set.point],
                             totalFiles, directFiles))

\* mutant of GridStreamMetric: a request for a grid without resident values
\* loads the registered file into the sensors and leaves the values there
GridStreamMetricLoading ==
    /\ nops < MaxGridOps
    /\ Becomes("annual_metrics", <<>>,
           GridResult(GridAnnualMetrics(points, totalFiles, disk, None, <<>>,
                                        NoSchedule, GridHours).status,
                      IF ~HasValues(points) /\ totalFiles # <<>>
                      THEN SetValuesFromFile(points, <<>>, <<>>, disk,
                               totalFiles[1].path, totalFiles[1].hoys,
                               totalFiles[1].start_line, FALSE,
                               totalFiles[1].header, TRUE, 0).points
                      ELSE points,
                      totalFiles, directFiles))

\* grid.annual_metrics(): a metric request, streamed from the file when no
\* value is resident; the grid is only read
GridStreamMetric ==
    /\ nops < MaxGridOps
    /\ Becomes("annual_metrics", <<>>,
           GridResult(GridAnnualMetrics(points, totalFiles, disk, None, <<>>,
                                        NoSchedule, GridHours).status,
                      points, totalFiles, directFiles))

NextGrid ==
    \/ GridSetValuesFromFile
    \/ GridSetCoupledValuesFromFile
    \/ GridLoadValuesFromFiles
    \/ GridUnload
    \/ GridSetValues
    \/ GridStreamMetric

SpecGrid == InitGrid /\ [][NextGrid]_vars

\* grid.add_result_files(file_path, hoys, start_line, is_direct=False,
\* header=True, mode=0): a result file is registered, no value is read
GridAddResultFiles ==
    /\ nops < MaxGridOps
    /\ \E path \in {"total", "short"} :
          Becomes("add_result_files", <<path>>,
              GridResult("ok", points,
                         AddResultFiles(totalFiles, path, HoysOf(<<0, 1>>), 0,
                                        TRUE, 0),
                         directFiles))

NextStream ==
    \/ GridAddResultFiles
    \/ GridSetValuesFromFile
    \/ GridSetCoupledValuesFromFile
    \/ GridLoadValuesFromFiles
    \/ GridUnload
    \/ GridSetValues
    \/ GridStreamMetric

\* the grid's operations, with result files registered ahead of any load
SpecStream == InitGrid /\ [][NextStream]_vars

----------------------------------------------------------------------------
(* C14: spatial daylight autonomy of the grid *)

\* the daylight autonomy of sensor i of the grid, as the sensor reports it
\* for the arguments of the call
SensorDa(i) ==
    DaylightAutonomy(points[i].values, points[i].loaded, <<1>>,
        GridHoys(points), OrDefault(inp.call.da_threshhold, DefaultDaThreshold),
        <<>>, OrWorkday(inp.call.occ_schedule, inp.call.workday)).DA

\* the sensors whose daylight autonomy is strictly below the target
BelowTarget ==
    LET target == OrDefault(inp.call.target_da, DefaultTargetDa)
    IN  {i \in 1..Len(points) : SensorDa(i)[1] < target * SensorDa(i)[2]}

\* C14: on a grid with resident values (or with no sensor at all)
\* spatial_daylight_autonomy returns sDA = 100 * (1 - k / n) for k sensors
\* below the target out of n, the daylight autonomies in sensor order, and
\* exactly the sensors below the target as problematic; with no sensor the
\* sDA is 0 and nothing is raised
C14_SdaAsClaimed ==
    (res # Idle /\ res.op = "spatial_daylight_autonomy"
       /\ (HasValues(points) \/ Len(points) = 0))
    => /\ res.out.status = "ok"
       /\ res.out.daylight_autonomy = [i \in 1..Len(points) |-> SensorDa(i)]
       /\ {res.out.problematic_points[j] :
              j \in 1..Len(res.out.problematic_points)} = BelowTarget
       /\ IF Len(points) = 0 THEN res.out.sda = 0
          ELSE res.out.sda * Len(points)
                  = 100 * (Len(points) - Cardinality(BelowTarget))

\* what the code does instead: with resident values the call ends in the
\* NameError of izip, with no sensor it never gets as far as the division
C14_SdaRaises ==
    (res # Idle /\ res.op = "spatial_daylight_autonomy")
    => IF HasValues(points) THEN res.out.status = "NameError"
       ELSE IF Len(points) = 0 THEN res.out.status = "IndexError"
       ELSE res.out.status = "NameError"

----------------------------------------------------------------------------
(* C15: the streaming path against the in-memory path *)

\* C15: a grid metric of a file-backed grid equals the same metric of the
\* grid whose values were read from the same files
C15_StreamingEqualsResident ==
    (res # Idle /\ Len(points) > 0)
    => res.out = GridMetricOf(inp.call, inp.twin)

\* the sensors of the grid with the values of the files resident
ResidentPoints == IF HasValues(points) THEN points ELSE inp.twin

\* the arguments the grid hands to the reducers for the call
CallArgs ==
    IF inp.call.fn = "annual_solar_exposure"
    THEN MetricArgs(None, <<>>,
             OrDefault(inp.call.threshhold, DefaultAseThreshold),
             OrDefault(inp.call.target_hours, DefaultTargetHours),
             IF inp.call.occ_schedule.given /\ inp.call.occ_schedule.hours # {}
             THEN inp.call.occ_schedule
             ELSE ScheduleOf(HourSet(GridHoys(ResidentPoints))), {})
    ELSE MetricArgs(OrDefault(inp.call.da_threshhold, DefaultDaThreshold),
             IF inp.call.fn = "annual_metrics" /\ inp.call.udi_min_max # <<>>
             THEN inp.call.udi_min_max
             ELSE <<DefaultGridUdiMin, DefaultGridUdiMax>>,
             None, None,
             OrWorkday(inp.call.occ_schedule, inp.call.workday),
             inp.call.workday)

\* past os.path.getsize the two paths agree: reducing the rows of the file
\* gives the per-sensor results of the resident values
C15_RowsReduceAsSensors ==
    Len(points) > 0
    => FromFile(inp.call.fn, Len(points), disk,
                IF inp.call.fn = "annual_solar_exposure"
                THEN directFiles[1] ELSE totalFiles[1], CallArgs)
       = FromSensors(inp.call.fn, ResidentPoints, GridHoys(ResidentPoints),
                     CallArgs, 1)

----------------------------------------------------------------------------
(* C18: descriptors and resident values *)

\* the grid holds descriptors of files
HasDescriptors == totalFiles # <<>> \/ directFiles # <<>>

\* C18: in every reachable state of the grid, holding result-file
\* descriptors and holding resident values exclude each other
C18_FileBackedOrResident == ~(HasDescriptors /\ HasValues(points))

\* what the code keeps instead: an ingestion that went through leaves the
\* grid with both the descriptor of the file and its values
C18_IngestedFileStaysRegistered ==
    (res # Idle /\ res.op = "set_values_from_file" /\ res.status = "ok")
    => HasDescriptors /\ HasValues(points)

----------------------------------------------------------------------------
(* C19: unload *)

\* C19: after unload no sensor holds a value, and the descriptors of the
\* grid are the ones it had before the call
C19_UnloadKeepsDescriptors ==
    (res # Idle /\ res.op = "unload")
    => /\ ~HasValues(points)
       /\ totalFiles = res.before.totalFiles
       /\ directFiles = res.before.directFiles

\* what unload does: the values and the descriptors are gone
C19_UnloadRemovesAll ==
    (res # Idle /\ res.op = "unload")
    => ~HasValues(points) /\ ~HasDescriptors

----------------------------------------------------------------------------
(* C20: a failed ingestion *)

IngestOps ==
    {"set_values_from_file", "set_coupled_values_from_file",
     "load_values_from_files"}

\* C20: an ingestion that fails, or that is handed an empty file, a file
\* whose header does not fit the grid, a file with fewer rows than sensors
\* or a file with a malformed row, leaves the values of every sensor and the
\* descriptors of the grid as they were before the call
C20_FailedIngestionLeavesGrid ==
    (res # Idle /\ res.op \in IngestOps
       /\ (res.status # "ok" \/ \E j \in 1..Len(res.paths) : Defective(res.paths[j])))
    => /\ points = res.before.points
       /\ totalFiles = res.before.totalFiles
       /\ directFiles = res.before.directFiles

\* the failures that do leave the grid alone: those raised before the
\* descriptor is registered (the empty file and the header mismatch)
C20_EarlyFailureLeavesGrid ==
    (res # Idle /\ res.op = "set_values_from_file"
       /\ res.paths[1] \in {"empty", "mismatch"})
    => /\ res.status # "ok"
       /\ points = res.before.points
       /\ totalFiles = res.before.totalFiles
       /\ directFiles = res.before.directFiles

----------------------------------------------------------------------------
(* Grids as wholes: renumbering the sensors, adding two grids *)

MaxStart == 1

\* ap.id = count for count, ap in enumerate(aps): the ids the sensors of a
\* grid of n sensors get when they are assigned to it
LocalIds(n) == [k \in 1..n |-> k - 1]

\* a grid: the ids of its sensors in grid order, its hours, whether values
\* are resident, and its light sources
Grid(ids, hs, has_values, luminous_sources) ==
    [ids |-> ids, hoys |-> hs, has_values |-> has_values,
     luminous_sources |-> luminous_sources]

SourceNames == {"wg1", "wg2"}
GridHoysArgs == {<<0, 1>>, <<0>>}

\* the grids the operations are tried on
SomeGrids ==
    {Grid(LocalIds(n), hs, v, ls) :
        n \in 0..MaxSensors, hs \in GridHoysArgs, v \in BOOLEAN,
        ls \in SUBSET SourceNames}

\* the outcome of renumber(start_from): count is the position of the last
\* sensor, and is not bound when the grid has no sensor
RenumberOut(n, start_from) ==
    IF n = 0 THEN [status |-> "UnboundLocalError", out |-> None]
    ELSE [status |-> "ok", out |-> start_from + (n - 1)]

\* point.id = start_from + count for every sensor of the grid
RenumberIds(n, start_from) == [k \in 1..n |-> start_from + (k - 1)]

\* grid.renumber(start_from) on grid g
Renumber(g, start_from) ==
    /\ res = Idle
    /\ grids' = [grids EXCEPT ![g].ids = RenumberIds(Len(grids[g].ids), start_from)]
    /\ res' = [op |-> "renumber", grid |-> g, start_from |-> start_from,
               after |-> 0,
               status |-> RenumberOut(Len(grids[g].ids), start_from).status,
               out |-> RenumberOut(Len(grids[g].ids), start_from).out]
    /\ UNCHANGED <<points, totalFiles, directFiles, disk, sources, hoys, values, isDirectLoaded, written, nops, inp>>

\* the second grid is renumbered from what renumber returned for the first
RenumberNext ==
    /\ res # Idle
    /\ res.op = "renumber" /\ res.grid = 1 /\ res.status = "ok"
    /\ grids' = [grids EXCEPT ![2].ids = RenumberIds(Len(grids[2].ids), res.out)]
    /\ res' = [op |-> "renumber", grid |-> 2, start_from |-> res.out,
               after |-> 1,
               status |-> RenumberOut(Len(grids[2].ids), res.out).status,
               out |-> RenumberOut(Len(grids[2].ids), res.out).out]
    /\ UNCHANGED <<points, totalFiles, directFiles, disk, sources, hoys, values, isDirectLoaded, written, nops, inp>>

\* Python's None where the light sources of a grid are expected
NoneSources == {"None"}

AddFailed(exc) ==
    [status |-> exc, sensors |-> <<>>, ids |-> <<>>, luminous_sources |-> {}]

\* the sensors of grid g, named by their grid and their position
SensorsOf(g, n) == [k \in 1..n |-> <<g, k>>]

\* self + other: the hours are compared; without resident values on the
\* left the sources of the right are added to the left's with update(),
\* whose result is None (the sources are taken to be a set; a grid without
\* sources holds the tuple (), which has no update); with resident values
\* on the left the sources have to be equal; the sensors of both become the
\* sensors of a new grid
AddGrids(self, other) ==
    IF self.hoys # other.hoys THEN AddFailed("AssertionError")
    ELSE IF ~self.has_values /\ self.luminous_sources = {}
    THEN AddFailed("AttributeError")
    ELSE IF self.has_values /\ self.luminous_sources # other.luminous_sources
    THEN AddFailed("AssertionError")
    ELSE [status |-> "ok",
          sensors |-> SensorsOf(1, Len(self.ids)) \o SensorsOf(2, Len(other.ids)),
          ids |-> LocalIds(Len(self.ids) + Len(other.ids)),
          luminous_sources |-> IF self.has_values THEN self.luminous_sources
                               ELSE NoneSources]

\* what the addition leaves in the two grids: update() added the sources of
\* the right to the left's, and the sensors carry the ids of the new grid
AddedTo(self, other, g) ==
    IF AddGrids(self, other).status # "ok"
    THEN (IF g = 1 THEN self ELSE other)
    ELSE IF g = 1
    THEN Grid(LocalIds(Len(self.ids)), self.hoys, self.has_values,
              IF self.has_values THEN self.luminous_sources
              ELSE self.luminous_sources \cup other.luminous_sources)
    ELSE Grid([k \in 1..Len(other.ids) |-> Len(self.ids) + (k - 1)],
              other.hoys, other.has_values, other.luminous_sources)

\* grids[1] + grids[2]
Add ==
    /\ res = Idle
    /\ grids' = [g \in 1..2 |-> AddedTo(grids[1], grids[2], g)]
    /\ res' = [op |-> "add", before |-> grids,
               out |-> AddGrids(grids[1], grids[2])]
    /\ UNCHANGED <<points, totalFiles, directFiles, disk, sources, hoys, values, isDirectLoaded, written, nops, inp>>

InitGrids ==
    /\ sources = <<1>>
    /\ hoys = <<>>
    /\ values = <<>>
    /\ isDirectLoaded = FALSE
    /\ written = <<>>
    /\ nops = 0
    /\ inp = NoInput
    /\ res = Idle
    /\ points = <<>>
    /\ totalFiles = <<>>
    /\ directFiles = <<>>
    /\ disk = <<>>
    /\ grids \in [1..2 -> SomeGrids]

NextGrids ==
    \/ \E g \in 1..2, start_from \in 0..MaxStart : Renumber(g, start_from)
    \/ RenumberNext
    \/ Add

SpecGrids == InitGrids /\ [][NextGrids]_vars

----------------------------------------------------------------------------
(* C21: renumber *)

IdSet(g) == {grids[g].ids[k] : k \in 1..Len(grids[g].ids)}

\* C21: renumber(start) gives the k-th sensor the id start + k and returns
\* start + n, the next free id (start itself for a grid without sensors);
\* a second grid renumbered from the returned value shares no id with the
\* first
C21_RenumberReturnsNextFree ==
    (res # Idle /\ res.op = "renumber")
    => /\ res.status = "ok"
       /\ grids[res.grid].ids
             = [k \in 1..Len(grids[res.grid].ids) |-> res.start_from + (k - 1)]
       /\ res.out = res.start_from + Len(grids[res.grid].ids)
       /\ res.after = 1 => IdSet(1) \cap IdSet(2) = {}

\* what renumber returns: the id of the last sensor, and an exception for a
\* grid without sensors; the ids themselves are as claimed
C21_RenumberReturnsLast ==
    (res # Idle /\ res.op = "renumber")
    => /\ grids[res.grid].ids
             = [k \in 1..Len(grids[res.grid].ids) |-> res.start_from + (k - 1)]
       /\ IF Len(grids[res.grid].ids) = 0
          THEN res.status = "UnboundLocalError"
          ELSE res.status = "ok"
               /\ res.out = res.start_from + Len(grids[res.grid].ids) - 1

----------------------------------------------------------------------------
(* C22: the sum of two grids *)

\* the two grids may be merged: same hours, and no resident values on
\* either side or the same light sources
MayMerge(l, r) ==
    /\ l.hoys = r.hoys
    /\ (~l.has_values /\ ~r.has_values) \/ l.luminous_sources = r.luminous_sources

\* C22: the sum succeeds exactly when the grids may be merged; its sensors
\* are the left grid's followed by the right grid's with the ids 0..n-1,
\* and without resident values its sources are the union of both
C22_AddMergesOrFails ==
    (res # Idle /\ res.op = "add")
    => LET l == res.before[1]
           r == res.before[2]
       IN  /\ (res.out.status = "ok") <=> MayMerge(l, r)
           /\ res.out.status = "ok"
              => /\ res.out.sensors
                       = SensorsOf(1, Len(l.ids)) \o SensorsOf(2, Len(r.ids))
                 /\ res.out.ids = LocalIds(Len(l.ids) + Len(r.ids))
                 /\ (~l.has_values /\ ~r.has_values)
                    => res.out.luminous_sources
                          = l.luminous_sources \cup r.luminous_sources

\* what holds of the sum: only the left grid's values are looked at, the
\* sensors are joined in order, and the sources of a sum without resident
\* values on the left are None
C22_AddLooksAtLeftOnly ==
    (res # Idle /\ res.op = "add")
    => LET l == res.before[1]
           r == res.before[2]
       IN  /\ (res.out.status = "ok")
              <=> /\ l.hoys = r.hoys
                  /\ IF l.has_values
                     THEN l.luminous_sources = r.luminous_sources
                     ELSE l.luminous_sources # {}
           /\ res.out.status = "ok"
              => /\ res.out.sensors
                       = SensorsOf(1, Len(l.ids)) \o SensorsOf(2, Len(r.ids))
                 /\ res.out.ids = LocalIds(Len(l.ids) + Len(r.ids))
                 /\ ~l.has_values => res.out.luminous_sources = NoneSources

----------------------------------------------------------------------------
(* Bulk writes to one sensor *)

\* what hoys and values are: lists, or with one of the two produced lazily,
\* by a generator or by another iterator (itertools, iter(...))
SeqKinds == {"list", "generator", "iterator"}

\* len(values) == len(hoys) is asserted unless isinstance(values,
\* types.GeneratorType) or isinstance(hoys, types.GeneratorType)
LengthChecked(kind) == kind # "generator"

\* the outcome of the assertion: an iterator that is not a generator has no
\* len()
LengthCheck(kind, vs, hs) ==
    IF ~LengthChecked(kind) THEN "ok"
    ELSE IF kind = "iterator" THEN "TypeError"
    ELSE IF Len(vs) # Len(hs) THEN "AssertionError"
    ELSE "ok"

\* the result of a bulk write: the store it leaves and the number of pairs
\* taken from izip(hoys, values) before it ended
BulkOk(vals, n) == [status |-> "ok", values |-> vals, done |-> n]
BulkFailed(exc, vals, n) == [status |-> exc, values |-> vals, done |-> n]

\* for hoy, value in izip(hoys, values) of set_values, from pair i on
RECURSIVE SetValuesLoop(_, _, _, _, _, _, _)
SetValuesLoop(vals, hs, vs, sid, stateid, ind, i) ==
    IF i > Min(Len(hs), Len(vs)) THEN BulkOk(vals, i - 1)
    ELSE IF hs[i] = None
    THEN SetValuesLoop(vals, hs, vs, sid, stateid, ind, i + 1)
    ELSE IF EntryOf(vals, sid, stateid, hs[i]).kind = "tuple"
    THEN BulkFailed("ValueError", vals, i - 1)
    ELSE SetValuesLoop(Put(vals, sid, stateid, hs[i],
                           SetItem(EntryOf(vals, sid, stateid, hs[i]),
                                   ind, vs[i])),
                       hs, vs, sid, stateid, ind, i + 1)

\* for hoy, value in izip(hoys, values) of set_coupled_values, from pair i on
RECURSIVE SetCoupledValuesLoop(_, _, _, _, _, _)
SetCoupledValuesLoop(vals, hs, vs, sid, stateid, i) ==
    IF i > Min(Len(hs), Len(vs)) THEN BulkOk(vals, i - 1)
    ELSE IF hs[i] = None
    THEN SetCoupledValuesLoop(vals, hs, vs, sid, stateid, i + 1)
    ELSE SetCoupledValuesLoop(Put(vals, sid, stateid, hs[i],
                                  CoupledEntry(vs[i][1], vs[i][2])),
                              hs, vs, sid, stateid, i + 1)

\* the history after a bulk write that took n pairs
Marked(w, key, hs, vs, n, by) ==
    [k \in DOMAIN w |->
        IF k[1] = key /\ \E i \in 1..n : hs[i] = k[2]
        THEN LET i == CHOOSE j \in 1..n :
                          /\ hs[j] = k[2]
                          /\ \A l \in 1..n : hs[l] = k[2] => l <= j
             IN  IF by = "set_values"
                 THEN [by |-> by, t |-> None, d |-> None]
                 ELSE [by |-> by, t |-> vs[i][1], d |-> vs[i][2]]
        ELSE w[k]]

BulkCall(op, vs, hs, key, is_direct, kind, status, n) ==
    [op |-> op, vs |-> vs, hs |-> hs, key |-> key, is_direct |-> is_direct,
     kind |-> kind, status |-> status, done |-> n]

\* what set_values leaves once its loop ended with out
SetValuesEnds(out, vs, hs, sid, stateid, is_direct, kind) ==
    /\ values' = out.values
    /\ isDirectLoaded' = (isDirectLoaded \/ is_direct)
    /\ written' = Marked(written, <<sid, stateid>>, hs, vs, out.done,
                         "set_values")
    /\ res' = BulkCall("set_values", vs, hs, <<sid, stateid>>, is_direct,
                       kind, out.status, out.done)

\* set_values(values, hoys, source, state, is_direct)
SetValuesOf(vs, hs, sid, stateid, is_direct, kind) ==
    /\ res = Idle
    /\ nops < MaxOps
    /\ nops' = nops + 1
    /\ IF LengthCheck(kind, vs, hs) # "ok"
       THEN /\ res' = BulkCall("set_values", vs, hs, <<sid, stateid>>,
                               is_direct, kind, LengthCheck(kind, vs, hs), 0)
            /\ UNCHANGED <<values, isDirectLoaded, written>>
       ELSE SetValuesEnds(SetValuesLoop(values, hs, vs,
                                        CreateDataStructure(sid, stateid)[1],
                                        CreateDataStructure(sid, stateid)[2],
                                        IF is_direct THEN 1 ELSE 0, 1),
                          vs, hs, sid, stateid, is_direct, kind)
    /\ UNCHANGED <<gridVars, sources, hoys, inp>>

\* what set_coupled_values leaves once its loop ended with out
SetCoupledValuesEnds(out, vs, hs, sid, stateid, kind) ==
    /\ values' = out.values
    /\ isDirectLoaded' = TRUE
    /\ written' = Marked(written, <<sid, stateid>>, hs, vs, out.done,
                         "set_coupled_values")
    /\ res' = BulkCall("set_coupled_values", vs, hs, <<sid, stateid>>, TRUE,
                       kind, out.status, out.done)

\* set_coupled_values(values, hoys, source, state)
SetCoupledValuesOf(vs, hs, sid, stateid, kind) ==
    /\ res = Idle
    /\ nops < MaxOps
    /\ nops' = nops + 1
    /\ IF LengthCheck(kind, vs, hs) # "ok"
       THEN /\ res' = BulkCall("set_coupled_values", vs, hs, <<sid, stateid>>,
                               TRUE, kind, LengthCheck(kind, vs, hs), 0)
            /\ UNCHANGED <<values, isDirectLoaded, written>>
       ELSE SetCoupledValuesEnds(
                SetCoupledValuesLoop(values, hs, vs,
                                     CreateDataStructure(sid, stateid)[1],
                                     CreateDataStructure(sid, stateid)[2], 1),
                vs, hs, sid, stateid, kind)
    /\ UNCHANGED <<gridVars, sources, hoys, inp>>

\* the hour sequences the bulk writes are tried with: none, one hour, two
\* hours in either order, and a None hour before or after an hour
BulkHoys == {<<>>, <<0>>, <<None>>, <<0, 1>>, <<1, 0>>, <<None, 1>>}
\* the value sequences of set_values
BulkVals == {<<>>, <<4>>, <<4, 5>>}
\* the value sequences of set_coupled_values
BulkPairs == {<<>>, <<(<<1, 2>>)>>, <<(<<1, 2>>), (<<2, 1>>)>>}
\* the keys the bulk writes fill
BulkKeys == {<<0, 0>>, <<1, 0>>}

NextBulk ==
    \/ \E k \in BulkKeys, h \in StoreHoys \cup {None}, v \in SingleVals,
          is_direct \in BOOLEAN :
          SetValue(v, h, k[1], k[2], is_direct)
    \/ \E k \in BulkKeys, h \in StoreHoys \cup {None}, t \in {1}, d \in {2} :
          SetCoupledValue(t, d, h, k[1], k[2])
    \/ \E k \in BulkKeys, hs \in BulkHoys, vs \in BulkVals,
          is_direct \in BOOLEAN, kind \in SeqKinds :
          SetValuesOf(vs, hs, k[1], k[2], is_direct, kind)
    \/ \E k \in BulkKeys, hs \in BulkHoys, vs \in BulkPairs, kind \in SeqKinds :
          SetCoupledValuesOf(vs, hs, k[1], k[2], kind)
    \/ \E h \in StoreHoys : Combine(h, <<0, 0>>)
    \/ Return

SpecBulk == Init /\ [][NextBulk]_vars

----------------------------------------------------------------------------
(* C23: bulk writes and the lengths of their arguments *)

BulkOps == {"set_values", "set_coupled_values"}

\* the number of pairs izip(hoys, values) yields
Pairs(r) == Min(Len(r.hs), Len(r.vs))

\* the entry at hour h of the call's key holds value v, written by call r over
\* the entry old
Holds(e, old, r, v) ==
    IF r.op = "set_coupled_values" THEN e = TupleEntry(v[1], v[2])
    ELSE IF r.is_direct THEN e = ListEntry(old.tot, v)
    ELSE e = ListEntry(v, old.dir)

\* every entry other than those of the first n hours of call r is as before
OthersKept(after, before, r, n) ==
    \A k \in Keys, h \in StoreHoys :
        (k # r.key \/ ~(\E i \in 1..n : r.hs[i] = h)) =>
            EntryOf(after, k[1], k[2], h) = EntryOf(before, k[1], k[2], h)

\* the first n pairs of call r are in the store, its other entries as before
FirstWritten(after, before, r, n, skip_none) ==
    /\ \A i \in 1..n :
          IF r.hs[i] = None THEN skip_none
          ELSE Holds(EntryOf(after, r.key[1], r.key[2], r.hs[i]),
                     EntryOf(before, r.key[1], r.key[2], r.hs[i]), r, r.vs[i])
    /\ OthersKept(after, before, r, n)

\* the call failed and left the store and the flag as they were
FailsUntouched(r, exc) ==
    /\ r.status = exc
    /\ UNCHANGED <<values, isDirectLoaded>>

\* C23 (as claimed): a bulk write whose hours and values are finite sequences
\* of different lengths fails and writes nothing, store and flag unchanged;
\* when one of them is lazily produced the check is skipped and exactly
\* min(len(hours), len(values)) pairs are written, the i-th hour with the
\* i-th value (a pair whose hour is None counts as taken).
C23_LazyWritesAllPairs ==
    [][(res = Idle /\ res' # Idle /\ res'.op \in BulkOps) =>
          IF res'.kind = "list"
          THEN Len(res'.hs) # Len(res'.vs) =>
                  FailsUntouched(res', "AssertionError")
          ELSE /\ res'.status = "ok"
               /\ FirstWritten(values', values, res', Pairs(res'), TRUE)]_vars

\* C23 (what the code does): lists of different lengths fail and write
\* nothing; an iterator that is not a generator fails on len() and writes
\* nothing; any other bulk write takes the pairs in order up to the shorter
\* argument, skips a None hour, and a single-channel write ends with
\* ValueError, the pairs before written, at the first hour that holds a
\* coupled pair.
C23_BulkWritesInOrder ==
    [][(res = Idle /\ res' # Idle /\ res'.op \in BulkOps) =>
          IF res'.kind = "iterator" THEN FailsUntouched(res', "TypeError")
          ELSE IF res'.kind = "list" /\ Len(res'.hs) # Len(res'.vs)
          THEN FailsUntouched(res', "AssertionError")
          ELSE \E n \in 0..Pairs(res') :
                 /\ FirstWritten(values', values, res', n, TRUE)
                 /\ IF n = Pairs(res') THEN res'.status = "ok"
                    ELSE /\ res'.status = "ValueError"
                         /\ res'.op = "set_values"
                         /\ res'.hs[n + 1] # None
                         /\ EntryOf(values, res'.key[1], res'.key[2],
                                    res'.hs[n + 1]).kind = "tuple"]_vars

----------------------------------------------------------------------------
(* C24: the direct-loaded flag and the direct values stored *)

\* some entry of the store holds a direct value
DirectStored(vals) ==
    \E k \in Keys, h \in StoreHoys : IsNum(EntryOf(vals, k[1], k[2], h).dir)

\* C24 (as claimed): after any sequence of single, bulk and coupled writes
\* the direct-loaded flag is set only if a direct value is stored for at
\* least one entry.
C24_FlagOnlyWithDirect == isDirectLoaded => DirectStored(values)

\* C24 (what the code does): the flag becomes set by a write that stores a
\* direct value, and also by any set_values(is_direct=True) and any
\* set_coupled_values that passes its length check, whatever it writes.
C24_FlagSetBeforeLoop ==
    [][(isDirectLoaded' /\ ~isDirectLoaded) =>
          \/ DirectStored(values')
          \/ /\ res' # Idle
             /\ res'.op \in BulkOps
             /\ res'.is_direct
             /\ res'.status \in {"ok", "ValueError"}]_vars

----------------------------------------------------------------------------
(* C25: combining when direct values are absent *)

\* a stored component as a number: an absent one adds nothing
Num(x) == IF IsNum(x) THEN x ELSE 0

\* the sum, over the sources from sid on that the combination includes, of
\* the totals stored (comp = 1) or of the directs stored (comp = 2); with
\* needs_total a direct counts only where the entry also holds a total
RECURSIVE SumStored(_, _, _, _, _, _)
SumStored(vals, ids, hoy, sid, comp, needs_total) ==
    IF sid >= Len(ids) THEN 0
    ELSE (IF ids[sid + 1] = -1 THEN 0
          ELSE IF comp = 1 THEN Num(EntryOf(vals, sid, ids[sid + 1], hoy).tot)
          ELSE IF needs_total /\ ~IsNum(EntryOf(vals, sid, ids[sid + 1], hoy).tot)
          THEN 0
          ELSE Num(EntryOf(vals, sid, ids[sid + 1], hoy).dir))
         + SumStored(vals, ids, hoy, sid + 1, comp, needs_total)

\* one hour's pair is the sum of the totals and, with the flag set, the sum
\* of the directs, and None without the flag
SumsOf(ids, hoy, total, direct, needs_total) ==
    /\ total = SumStored(values, ids, hoy, 0, 1, FALSE)
    /\ direct = IF isDirectLoaded
                THEN SumStored(values, ids, hoy, 0, 2, needs_total)
                ELSE None

\* every successful combined read returns SumsOf for each of its hours
CombinedAsSums(needs_total) ==
    /\ (/\ res.op = "combined_value_by_id"
        /\ IsCombo(res.ids)
        /\ res.out.status = "ok") =>
          SumsOf(res.ids, res.hoy, res.out.total, res.out.direct, needs_total)
    /\ (/\ res.op = "combined_values_by_id"
        /\ \A i \in 1..Len(res.idss) : IsCombo(res.idss[i])
        /\ res.out.status = "ok") =>
          \A i \in 1..Len(res.hs) :
             SumsOf(res.idss[i], res.hs[i], res.out.pairs[i][1],
                    res.out.pairs[i][2], needs_total)

\* C25 (as claimed): combined_value_by_id and combined_values_by_id yield
\* direct = None whenever the flag is unset, with total the full sum over
\* the sources not excluded; with the flag set direct is the sum of the
\* direct components of the selected entries; an absent direct never stops
\* the totals of later sources from being added.
C25_DirectIsSumOfDirects == CombinedAsSums(FALSE)

\* C25 (what the code does): as claimed, except that the direct component of
\* an entry without a total is left out of the direct sum.
C25_DirectNeedsTotal == CombinedAsSums(TRUE)

----------------------------------------------------------------------------
(* C29: the direct-loaded flag across unload *)

\* the sensor holds a direct component for some hour
PointHasDirect(p) ==
    /\ p.values # NoValues
    /\ \E h \in GridHours : IsNum(p.values[1][1][h].dir)

\* combined_value_by_id(hoy) of a sensor of the grid, whose one source has
\* one state
PointCombined(p, hoy) ==
    CombinedValueById(Structure(p.values), p.loaded, <<1>>, hoy, <<0>>)

\* C29 (as claimed): after unload() a sensor is like a fresh one as to direct
\* values: its flag is unset, and when only totals are set afterwards
\* combined_value_by_id yields direct = None, not 0; the flag never stays set
\* while the sensor holds no direct component.
C29_UnloadResetsFlag ==
    /\ (res # Idle /\ res.op = "unload") =>
          \A i \in 1..Len(points) : ~points[i].loaded
    /\ (res # Idle /\ res.op = "set_values" /\ res.status = "ok") =>
        \A i \in 1..Len(points) :
          ~PointHasDirect(points[i]) =>
             /\ ~points[i].loaded
             /\ \A h \in GridHours :
                   PointCombined(points[i], h).status = "ok" =>
                      PointCombined(points[i], h).direct = None

\* C29 (what the code does): unload() empties the sensors' values and leaves
\* every sensor's flag as it was.
C29_UnloadKeepsFlag ==
    (res # Idle /\ res.op = "unload") =>
        \A i \in 1..Len(points) :
           /\ points[i].values = NoValues
           /\ points[i].loaded = res.before.points[i].loaded

----------------------------------------------------------------------------
(* C28: a streamed metric request only reads the grid *)

\* the request was served from the file: no value was resident and a total
\* file was registered
Streamed(g) == ~HasValues(g.points) /\ g.totalFiles # <<>>

----------------------------------------------------------------------------
(* C26: the blind control has no memory across hours *)

\* the orders n items can be put in
Orders(n) ==
    {p \in [1..n -> 1..n] : \A i, j \in 1..n : p[i] = p[j] => i = j}

Permuted(s, p) == [i \in 1..Len(s) |-> s[p[i]]]

\* the outcome again is the outcome out with every sequence reordered by p
SameReordered(out, again, p) ==
    /\ again.status = "ok"
    /\ again.blinds_state = Permuted(out.blinds_state, p)
    /\ again.blinds_index = Permuted(out.blinds_index, p)
    /\ again.ill_values = Permuted(out.ill_values, p)
    /\ again.dir_values = Permuted(out.dir_values, p)
    /\ again.success = Permuted(out.success, p)

----------------------------------------------------------------------------
(* Reading one result file into the sensors of a grid *)

\* the numbers of lines a header holds before its NROWS line (#?RADIANCE and
\* the commands that made the matrix): none, as many as leave FORMAT the
\* tenth line, and one more
HeaderComments == {0, MaxHeaderLines - 3, MaxHeaderLines - 2}

\* row r of a result file, every value different from every other
ResultRow(r) == <<10 * r + 1, 10 * r + 2>>

\* a result file of nrows rows of two values, with ncomments lines, NROWS,
\* NCOLS, FORMAT and the empty line ahead of them when it has a header
ResultFile(has_header, ncomments, nrows) ==
    (IF has_header
     THEN [i \in 1..ncomments |-> HeaderLine("comment", None)]
          \o <<HeaderLine("NROWS", nrows), HeaderLine("NCOLS", 2),
               HeaderLine("FORMAT", None), HeaderLine("blank", None)>>
     ELSE <<>>)
    \o [r \in 1..nrows |-> RowLine(ResultRow(r))]

\* the calls of set_values_from_file the file is read by: the header flag
\* tells whether the file has a header, the rows of the grid follow
\* start_line rows of grids before it
ReadCalls ==
    [fn : {"set_values_from_file"}, header : BOOLEAN,
     ncomments : HeaderComments, start_line : {None, 0, 1, 2},
     hoys : {NoHoys, HoysOf(<<2, 3>>)}, is_direct : BOOLEAN,
     check_point_count : BOOLEAN]

StartLine(call) == IF call.start_line = None THEN 0 ELSE call.start_line

InitRead ==
    /\ sources = <<1>>
    /\ hoys = <<>>
    /\ values = <<>>
    /\ isDirectLoaded = FALSE
    /\ written = <<>>
    /\ nops = 0
    /\ inp \in ReadCalls
    /\ res = Idle
    /\ points = FreshPoints(GridSensors)
    /\ totalFiles = <<>>
    /\ directFiles = <<>>
    /\ disk = [path \in {"result"} |->
                  ResultFile(inp.header, inp.ncomments,
                             StartLine(inp) + GridSensors)]
    /\ grids = <<>>

\* grid.set_values_from_file("result", hoys, start_line=..., is_direct=...,
\* header=..., check_point_count=...)
ReadResultFile ==
    /\ res = Idle
    /\ Becomes("set_values_from_file", <<"result">>,
           SetValuesFromFile(points, totalFiles, directFiles, disk, "result",
                             inp.hoys, inp.start_line, inp.is_direct,
                             inp.header, inp.check_point_count, 0))

NextRead == ReadResultFile

SpecRead == InitRead /\ [][NextRead]_vars

----------------------------------------------------------------------------
(* C27: which row goes to which sensor, which value to which hour *)

\* the hours of the rows: the list supplied, or else one hour per declared
\* column, from 0
RowHours(call) == IF call.hoys.given THEN call.hoys.hs ELSE <<0, 1>>

\* sensor k holds the values of row start_line + k, the i-th value under the
\* i-th hour, in the channel the call names, and nothing else
HoldsRow(p, call, k) ==
    /\ p.values # NoValues
    /\ \A h \in GridHours :
          IF \E i \in 1..2 : RowHours(call)[i] = h
          THEN LET i == CHOOSE j \in 1..2 : RowHours(call)[j] = h
                   v == ResultRow(StartLine(call) + k)[i]
               IN  p.values[1][1][h] =
                      (IF call.is_direct THEN ListEntry(None, v)
                       ELSE ListEntry(v, None))
          ELSE p.values[1][1][h] = Absent

\* the file was read to its end with every sensor given its own row
RowsInOrder ==
    /\ res.status = "ok"
    /\ \A k \in 1..Len(points) : HoldsRow(points[k], inp, k)

\* C27 (as claimed): after the header, up to and with the empty line after
\* FORMAT, or from the first line of a file without header, and after
\* start_line rows, the k-th row goes to the k-th sensor and its i-th value
\* to the i-th hour; no header line is read as a row, no row as header.
C27_RowsFollowHeader ==
    (res # Idle /\ res.op = "set_values_from_file"
       /\ (inp.header \/ inp.hoys.given)) => RowsInOrder

\* the header ends within the lines parse_header reads
HeaderFits(call) == call.header => call.ncomments + 3 <= MaxHeaderLines

\* the hours are known to the call: supplied, or read from NCOLS, which is
\* read for start_line 0 only
HoursKnown(call) == call.hoys.given \/ (call.header /\ StartLine(call) = 0)

\* C27 (what the code does): the rows go to the sensors as claimed exactly
\* when the header ends within its first ten lines and the hours are
\* supplied or the start line is 0; a longer header has its remaining lines
\* read as rows, or skipped as the rows of the grids before.
C27_RowsFollowShortHeader ==
    (res # Idle /\ res.op = "set_values_from_file") =>
        (RowsInOrder <=> (HeaderFits(inp) /\ HoursKnown(inp)))

\* the call ended well with the sensors holding the rows of another grid
C27_WrongRowsAssigned ==
    /\ res # Idle
    /\ res.op = "set_values_from_file"
    /\ res.status = "ok"
    /\ inp.header
    /\ inp.hoys.given
    /\ points[1].values # NoValues
    /\ points[1].values[1][1][inp.hoys.hs[1]].tot = ResultRow(1)[1]
    /\ StartLine(inp) = 2

----------------------------------------------------------------------------
(* C30: daylight autonomy against continuous daylight autonomy *)

\* fractions with positive denominators, compared
FractionLeq(a, b) == a[1] * b[2] <= b[1] * a[2]

\* C30: for totals that are not negative, a positive threshold and at least
\* one scheduled hour, 0 <= DA <= cDA <= 100, and DA = cDA exactly when
\* every scheduled hour has a total at or above the threshold or a total
\* of 0.
C30_DaWithinCda ==
    (res # Idle /\ res.op \in DaOps /\ ScheduledPositions # {}) =>
        /\ res.out.status = "ok"
        /\ res.out.DA[2] > 0 /\ res.out.cda[2] > 0
        /\ FractionLeq(<<0, 1>>, res.out.DA)
        /\ FractionLeq(res.out.DA, res.out.cda)
        /\ FractionLeq(res.out.cda, <<100, 1>>)
        /\ SameFraction(res.out.DA, res.out.cda)
           <=> \A c \in ScheduledPositions :
                  StoredTotal(c) >= ThresholdUsed \/ StoredTotal(c) = 0

\* C30 witness: of three scheduled hours one has no light at all, the others
\* are on and above the threshold, and the two metrics are equal and
\* neither 0 nor 100.
C30_Witness ==
    /\ res # Idle /\ res.op = "daylight_autonomy"
    /\ Len(hoys) = 3
    /\ inp.occ_schedule = NoSchedule
    /\ inp.da_threshhold = None
    /\ StoredTotal(1) = 0 /\ StoredTotal(2) = 300 /\ StoredTotal(3) = 2500
    /\ res.out.status = "ok"
    /\ SameFraction(res.out.DA, res.out.cda)
    /\ res.out.DA = <<200, 3>>

====
